---------------------------- MODULE Spec2Model ----------------------------
(***************************************************************************)
(* A model of the ScanM recording reader: the header reader SMH            *)
(* (scanm_smh.py), the pixel-data reader SMP (scanm_smp.py), the stimulus  *)
(* buffer classifier StimBuf (scanm_stim_buf.py) and the definitions of    *)
(* scanm_global.py.                                                        *)
(*                                                                         *)
(* One SMP object (the "handle") is modelled.  Its attributes are the      *)
(* variables of the module.  Every public call (loadSMH, loadSMP, getData) *)
(* is one action that models the whole call, whether it returns a code or  *)
(* raises.  Files never change; a path is identified with the pair of      *)
(* files (header, pixel data) it names.                                    *)
(***************************************************************************)
EXTENDS Integers, Sequences, FiniteSets, TLC

(***************************************************************************)
(* Program constants (scanm_global.py)                                     *)
(***************************************************************************)
SCMIO_maxInputChans == 4
SCMIO_maxStimChans == 32
SCMIO_maxStimBufMapEntries == 128

ScM_scanMode_XYImage == 0
ScM_scanMode_XYZImage == 3
ScM_scanMode_XZYImage == 4
ScM_scanMode_ZXYImage == 5
ScM_scanMode_TrajectArb == 6

ScM_scanModeStr ==
  <<"XYImage", "Line", "Traject", "XYZImage", "XZYImage", "ZXYImage",
    "TrajectArb", "XZImage">>

ScM_scanType_timelapsed == 10
ScM_scanType_zStack == 11

ScM_simpleScanFuncList == {"XYScan2", "XYScan3", "XYZScan1"}

ScM_PixDataResorted == 0
ScM_PixDataDecoded == 1

ERR_Ok == 0
ERR_NotImplemented == 1
ERR_FileNotFound == 2
ERR_InvalidSMHObject == 3
ERR_SMH_NoParametersFound == 4
ERR_CannotReshapePixelData == 5
ERR_UnknownScanMode == 6
Err_SMH_NoParametersFound == 7

\* The outcome of a call that raised an exception instead of returning
\* (no error code has this value).
RAISED == 0 - 1

(***************************************************************************)
(* Bounds of the model                                                     *)
(***************************************************************************)
\* largest number of pixel buffers a header declares as set
MaxBufs == 2
\* largest channel index asked of getData
MaxAskCh == 4
\* number of extra samples a pixel file may hold beyond the ones needed
MaxSlack == 1
\* number of samples of a pixel file that holds more than any load reads
Plenty == 200
\* largest buffer count in the dictionary with which loadSMP is called
MaxCount == 2 * MaxBufs

(***************************************************************************)
(* Python values.  Every value is a record of one shape, so that values of *)
(* different Python types can be compared: None, an int, a str, or a list  *)
(* (numpy array / Python list) of such values.                             *)
(***************************************************************************)
None == [k |-> "none", i |-> 0, s |-> "", l |-> <<>>]

IntV(n) == [k |-> "int", i |-> n, s |-> "", l |-> <<>>]

StrV(t) == [k |-> "str", i |-> 0, s |-> t, l |-> <<>>]

ListV(q) == [k |-> "list", i |-> 0, s |-> "", l |-> q]

IsNone(v) == v.k = "none"

IsInt(v) == v.k = "int"

\* The decimal numerals the header files of the model use.
Numerals ==
  <<"0", "1", "2", "3", "4", "5", "6", "7", "8", "9", "10", "11", "12",
    "13", "14", "15", "16", "17", "18", "19", "20">>

IsNumeral(t) == \E n \in 1..Len(Numerals) : Numerals[n] = t

\* int(v) of a str: the number a numeral denotes (ValueError otherwise,
\* which the callers test with IsNumeral).
ParseInt(t) == (CHOOSE n \in 1..Len(Numerals) : Numerals[n] = t) - 1

\* int(x) of a value: of an int, the int; of a str, the parsed numeral.
CanInt(v) == IsInt(v) \/ (v.k = "str" /\ IsNumeral(v.s))

ToInt(v) == IF IsInt(v) THEN v.i ELSE ParseInt(v.s)

(***************************************************************************)
(* The parameter dictionary `_kvPairDict`: a function from the keys that   *)
(* are present to entries [tid, nvl, svl].                                 *)
(***************************************************************************)
EmptyDict == [key \in {} |-> 0]

Entry(tid, n, v) == [tid |-> tid, n |-> n, v |-> v]

HasKey(d, key) == key \in DOMAIN d

\* d.update({key: e})
DictUpdate(d, key, e) == (key :> e) @@ d

DictPop(d, key) == [x \in (DOMAIN d) \ {key} |-> d[x]]

\* SMH.get(key): the value of the entry, None on KeyError.
Get(d, key) == IF HasKey(d, key) THEN d[key].v ELSE None

\* SMH.get(key, remove=True): the dictionary after the call.
GetRemove(d, key) == IF HasKey(d, key) THEN DictPop(d, key) ELSE d

\* SMH.set(key, val): replaces the value only; a missing key is logged.
Set(d, key, val) ==
  IF HasKey(d, key) THEN [d EXCEPT ![key] = [@ EXCEPT !.v = val]] ELSE d

(***************************************************************************)
(* Keys of the parameter dictionary (SCMIO_keys and the format strings of  *)
(* scanm_global.py)                                                        *)
(***************************************************************************)
K_PixelSizeInBytes == "PixelSizeInBytes"
K_StimulusChannelMask == "StimulusChannelMask"
K_MaxStimBufMapLen == "MaxStimulusBufferMapLength"
K_NumberOfStimBufs == "NumberOfStimulusBuffers"
K_InputChannelMask == "InputChannelMask"
K_NumberOfFrames == "NumberOfFrames"
K_FrameCounter == "FrameCounter"
K_StimBufLenList == "StimBufLenList"
K_StimBufMapEntries == "StimBufMapEntries"
K_TargetedStimDurList == "TargetedStimDurList"
K_RealStimDurList == "RealStimDurList"
K_NumberOfInputChans == "NumberOfInputChans"
K_InChan_PixBufLenList == "InChan_PixBufLenList"
K_NumberOfPixBufsSet == "NumberOfPixBufsSet"
K_PixBufCounter == "PixBufCounter"
K_USER_ScanMode == "ScanMode"
K_USER_ScanType == "ScanType"
K_USER_dxPix == "FrameWidth"
K_USER_dyPix == "FrameHeight"
K_USER_dzPix == "dZPixels"
K_USER_scanPathFunc == "ScanPathFunc"
K_USER_nPixRetrace == "PixRetraceLen"
K_USER_nXPixLineOffs == "XPixLineOffs"
K_USER_NFrPerStep == "NFrPerStep"
K_USER_aspectRatioFrame == "AspectRatioFrame"
K_USER_stimBufPerFr == "StimBufPerFr"
K_USER_dxFrDecoded == "dxFrDecoded"
K_USER_dyFrDecoded == "dyFrDecoded"
K_USER_dzFrDecoded == "dzFrDecoded"
K_USER_nImgPerFr == "nImgPerFr"
\* USER_dzFr has the value of USER_dzPix: an alias of the same Enum member.
K_USER_dzFr == "dZPixels"

\* "StimulusBufferLength_#{0}".format(i), i < 2
SCMIO_key_StimBufLen_x(i) ==
  <<"StimulusBufferLength_#0", "StimulusBufferLength_#1">>[i + 1]

\* "Channel_{0}_TargetedStimulusDuration_µs".format(i), i < 2
SCMIO_key_Ch_x_TargetedStimDur(i) ==
  <<"Channel_0_TargetedStimulusDuration_us",
    "Channel_1_TargetedStimulusDuration_us">>[i + 1]

\* "AO_{0}_Channel_{1}_RealStimulusDuration_µs".format("A", i), i < 2
SCMIO_key_AO_x_Ch_x_RealStimDur(i) ==
  <<"AO_A_Channel_0_RealStimulusDuration_us",
    "AO_A_Channel_1_RealStimulusDuration_us">>[i + 1]

\* "Channel_{0}_StimulusBufferMapEntry_#{1}".format(iCh, iEntr), both < 2
SCMIO_key_Ch_x_StimBufMapEntr_y(iCh, iEntr) ==
  <<"Channel_0_StimulusBufferMapEntry_#0",
    "Channel_0_StimulusBufferMapEntry_#1",
    "Channel_1_StimulusBufferMapEntry_#0",
    "Channel_1_StimulusBufferMapEntry_#1">>[2 * iCh + iEntr + 1]

\* "PixelBuffer_#{0}_Length".format(n), n < 4
SCMIO_key_InputCh_x_PixBufLen(n) ==
  <<"PixelBuffer_#0_Length", "PixelBuffer_#1_Length",
    "PixelBuffer_#2_Length", "PixelBuffer_#3_Length">>[n + 1]

SCMIO_uint32Str == "UINT32"
SCMIO_uint64Str == "UINT64"
SCMIO_stringStr == "String"
SCMIO_real32Str == "REAL32"

(***************************************************************************)
(* Bit operations on Python ints                                           *)
(***************************************************************************)
\* mask & (1 << i) != 0, for mask >= 0
Bit(mask, i) == (mask \div (2 ^ i)) % 2 = 1

\* the set bits of mask among 0 .. SCMIO_maxInputChans-1, ascending
ActiveChans(mask) ==
  SelectSeq(<<0, 1, 2, 3>>, LAMBDA c : Bit(mask, c))

(***************************************************************************)
(* Header lines.  A decoded header line "TYPE,NAME=VALUE;" is modelled by  *)
(* its type string, its stripped name and its first value entry, the       *)
(* latter as the sequence of the sub-entries that "|" separates.           *)
(***************************************************************************)
Line(sty, key, toks) == [sty |-> sty, key |-> key, toks |-> toks]

FloatV(t) == [k |-> "float", i |-> 0, s |-> t, l |-> <<>>]

\* v.lower() == "nan"
IsNanToken(t) == t \in {"nan", "NaN", "NAN"}

\* float(v) succeeds: on numerals and on the nan tokens.
CanFloat(toks) == Len(toks) = 1 /\ (IsNumeral(toks[1]) \/ IsNanToken(toks[1]))

\* int(v) succeeds
CanParseInt(toks) == Len(toks) = 1 /\ IsNumeral(toks[1])

\* One iteration of the parsing loop (scanm_smh.py 103-144): the parsed
\* entry [tid, nvl, svl], whether the key is marked as erroneous, and
\* whether the iteration raised.
ParseEntry(ln) ==
  IF ln.sty = SCMIO_stringStr
  THEN [ok |-> TRUE, err |-> FALSE,
        e |-> IF Len(ln.toks) = 1
              THEN Entry("character", IntV(1), StrV(ln.toks[1]))
              ELSE Entry("character", IntV(Len(ln.toks)),
                         ListV([j \in 1..Len(ln.toks) |-> StrV(ln.toks[j])]))]
  ELSE IF ln.sty = SCMIO_real32Str
  THEN IF CanFloat(ln.toks)
       THEN [ok |-> TRUE, err |-> FALSE,
             e |-> Entry("float64", IntV(1), FloatV(ln.toks[1]))]
       ELSE [ok |-> FALSE, err |-> FALSE, e |-> Entry("", None, None)]
  ELSE IF ln.sty \in {SCMIO_uint32Str, SCMIO_uint64Str}
  THEN IF Len(ln.toks) = 1 /\ IsNanToken(ln.toks[1])
       THEN [ok |-> TRUE, err |-> FALSE,
             e |-> Entry("float64", IntV(1), None)]
       ELSE [ok |-> TRUE, err |-> ~CanParseInt(ln.toks),
             e |-> Entry(IF ln.sty = SCMIO_uint32Str THEN "uint32" ELSE "uint64",
                         IntV(1),
                         IF CanParseInt(ln.toks)
                         THEN IntV(ParseInt(ln.toks[1])) ELSE None)]
  ELSE [ok |-> FALSE, err |-> FALSE, e |-> Entry("", None, None)]

\* The parsing loop over the lines kvl[i..]: the dictionary, the list
\* key_w_err, and ok = FALSE when an iteration raised (the dictionary then
\* keeps the entries of the lines before it).
RECURSIVE ParseLines(_, _, _, _)
ParseLines(d, errs, kvl, i) ==
  IF i > Len(kvl) THEN [ok |-> TRUE, d |-> d, errs |-> errs]
  ELSE LET p == ParseEntry(kvl[i]) IN
       IF ~p.ok THEN [ok |-> FALSE, d |-> d, errs |-> errs]
       ELSE ParseLines(DictUpdate(d, kvl[i].key, p.e),
                       IF p.err THEN Append(errs, kvl[i].key) ELSE errs,
                       kvl, i + 1)

(***************************************************************************)
(* Subscripting a parameter value, v[idx] with idx >= 0                    *)
(***************************************************************************)
\* The characters of the scan-path-function names the model uses.
StrChars(t) ==
  CASE t = "XYScan2" -> <<"X", "Y", "S", "c", "a", "n", "2">>
    [] t = "XYScan3" -> <<"X", "Y", "S", "c", "a", "n", "3">>
    [] t = "XYZScan1" -> <<"X", "Y", "Z", "S", "c", "a", "n", "1">>
    [] t = "MyScan" -> <<"M", "y", "S", "c", "a", "n">>
    [] OTHER -> <<>>

\* v[idx] raises: TypeError on None and numbers, IndexError beyond the end
CanSubscript(v, idx) ==
  \/ v.k = "list" /\ idx < Len(v.l)
  \/ v.k = "str" /\ idx < Len(StrChars(v.s))

Subscript(v, idx) ==
  IF v.k = "list" THEN v.l[idx + 1] ELSE StrV(StrChars(v.s)[idx + 1])

(***************************************************************************)
(* loadSMH, after the parsing loop.  Every step maps a record             *)
(* [ok, d]: d the dictionary so far, ok = FALSE once a step has raised.   *)
(***************************************************************************)
Raise(d) == [ok |-> FALSE, d |-> d]

Go(d) == [ok |-> TRUE, d |-> d]

\* a repair pass that gives 0 to every key recorded with an error
RepairKeys_zero(d, errs, i) ==
  Go([key \in DOMAIN d |->
        IF \E j \in 1..Len(errs) : errs[j] = key
        THEN Entry("uint32", IntV(1), IntV(0)) ELSE d[key]])

\* scanm_smh.py 146-160: repair of the keys in key_w_err
RECURSIVE RepairKeys(_, _, _)
RepairKeys(d, errs, i) ==
  IF i > Len(errs) THEN Go(d)
  ELSE IF errs[i] = K_USER_nPixRetrace
  THEN LET spf == Get(d, K_USER_scanPathFunc) IN
       IF CanSubscript(spf, 5) /\ CanInt(Subscript(spf, 5))
       THEN RepairKeys(DictUpdate(d, K_USER_nPixRetrace,
                         Entry("uint32", IntV(1), IntV(ToInt(Subscript(spf, 5))))),
                       errs, i + 1)
       ELSE Raise(d)
  ELSE IF errs[i] = K_USER_nXPixLineOffs
  THEN LET spf == Get(d, K_USER_scanPathFunc) IN
       IF CanSubscript(spf, 4) /\ CanInt(Subscript(spf, 4))
       THEN RepairKeys(DictUpdate(d, K_USER_nXPixLineOffs,
                         Entry("uint32", IntV(1), IntV(ToInt(Subscript(spf, 4))))),
                       errs, i + 1)
       ELSE Raise(d)
  ELSE RepairKeys(d, errs, i + 1)

\* The dictionary after get(key, remove=True) for each key of a sequence
RECURSIVE RemoveKeys(_, _)
RemoveKeys(d, keys) ==
  IF keys = <<>> THEN d ELSE RemoveKeys(GetRemove(d, Head(keys)), Tail(keys))

\* scanm_smh.py 162-193: the three stimulus lists
StimLists(d) ==
  LET nStimBuf == Get(d, K_NumberOfStimBufs) IN
  IF ~IsInt(nStimBuf) THEN Raise(d)
  ELSE
    LET n == IF nStimBuf.i > 0 THEN nStimBuf.i ELSE 0
        stimBufLenList == [j \in 1..n |-> Get(d, SCMIO_key_StimBufLen_x(j - 1))]
        tarStimDurList == [j \in 1..n |-> Get(d, SCMIO_key_Ch_x_TargetedStimDur(j - 1))]
        realStimDurList == [j \in 1..n |-> Get(d, SCMIO_key_AO_x_Ch_x_RealStimDur(j - 1))]
        d1 == RemoveKeys(d, [j \in 1..n |-> SCMIO_key_StimBufLen_x(j - 1)]
                            \o [j \in 1..n |-> SCMIO_key_Ch_x_TargetedStimDur(j - 1)]
                            \o [j \in 1..n |-> SCMIO_key_AO_x_Ch_x_RealStimDur(j - 1)])
        d2 == DictUpdate(d1, K_StimBufLenList,
                Entry("uint32", IntV(Len(stimBufLenList)), ListV(stimBufLenList)))
        d3 == DictUpdate(d2, K_TargetedStimDurList,
                Entry("float64", IntV(Len(tarStimDurList)), ListV(tarStimDurList)))
        d4 == DictUpdate(d3, K_RealStimDurList,
                Entry("float64", IntV(Len(tarStimDurList)), ListV(realStimDurList)))
    IN Go(d4)

\* The stimulus buffer map is a 32 x 128 matrix of zeros of which the
\* model keeps the cells [iCh][iEntr] with iCh < 2 and iEntr < 2, row by
\* row; the header files of the model set no other cell.
MatV(cells) == [k |-> "mat", i |-> 0, s |-> "", l |-> cells]

StimBufMapShape ==
  ListV(<<IntV(SCMIO_maxStimChans), IntV(SCMIO_maxStimBufMapEntries)>>)

\* the (iCh, iEntr) pairs the loops of scanm_smh.py 198-203 visit, in order
StimMapPairs(mask, maxLen) ==
  LET row(iCh) == IF Bit(mask, iCh)
                  THEN [j \in 1..maxLen |-> <<iCh, j - 1>>] ELSE <<>>
  IN row(0) \o row(1)

\* StimBufMapEntr[iCh][iEntr] = v, for each pair from the i-th on; an
\* assignment of None (or of a str that is no number) raises.
RECURSIVE StimMapFill(_, _, _, _)
StimMapFill(d, cells, pairs, i) ==
  IF i > Len(pairs) THEN [ok |-> TRUE, d |-> d, cells |-> cells]
  ELSE LET sKey == SCMIO_key_Ch_x_StimBufMapEntr_y(pairs[i][1], pairs[i][2])
           v == Get(d, sKey)
           d1 == GetRemove(d, sKey)
       IN IF ~CanInt(v) THEN [ok |-> FALSE, d |-> d1, cells |-> cells]
          ELSE StimMapFill(d1,
                 [cells EXCEPT ![2 * pairs[i][1] + pairs[i][2] + 1] = IntV(ToInt(v))],
                 pairs, i + 1)

\* scanm_smh.py 195-207: the stimulus buffer map
StimBufMap(d) ==
  LET mask == Get(d, K_StimulusChannelMask)
      maxLen == Get(d, K_MaxStimBufMapLen)
  IN IF ~IsInt(mask) THEN Raise(d)
     ELSE IF mask.i # 0 /\ ~IsInt(maxLen) THEN Raise(d)
     ELSE LET r == StimMapFill(d, <<IntV(0), IntV(0), IntV(0), IntV(0)>>,
                     StimMapPairs(mask.i, IF mask.i # 0 THEN maxLen.i ELSE 0), 1)
          IN IF ~r.ok THEN Raise(r.d)
             ELSE Go(DictUpdate(r.d, K_StimBufMapEntries,
                       Entry("uint64", StimBufMapShape, MatV(r.cells))))

\* scanm_smh.py 209-227: the list of pixel buffer lengths of the active
\* input channels (numbered continuously) and their number
InputChans(d) ==
  LET mask == Get(d, K_InputChannelMask) IN
  IF ~IsInt(mask) THEN Raise(d)
  ELSE
    LET nInCh == Len(ActiveChans(mask.i))
        pixBufLenList == [j \in 1..nInCh |-> Get(d, SCMIO_key_InputCh_x_PixBufLen(j - 1))]
        d1 == RemoveKeys(d, [j \in 1..nInCh |-> SCMIO_key_InputCh_x_PixBufLen(j - 1)])
        d2 == DictUpdate(d1, K_NumberOfInputChans,
                Entry("uint32", IntV(1), IntV(nInCh)))
        d3 == DictUpdate(d2, K_InChan_PixBufLenList,
                Entry("uint32", IntV(Len(pixBufLenList)), ListV(pixBufLenList)))
    IN Go(d3)

\* a backfill of the keys without an entry only
Backfill1_absent(d, key, v) ==
  IF ~HasKey(d, key) THEN DictUpdate(d, key, Entry("uint32", IntV(1), v)) ELSE d

\* One "if self.<key> is None: update {key: [uint32, 1, v]}" of the
\* backfill (scanm_smh.py 228-266)
Backfill1(d, key, v) ==
  IF IsNone(Get(d, key)) THEN DictUpdate(d, key, Entry("uint32", IntV(1), v)) ELSE d

\* scanm_smh.py 228-266, in the order of the code
Backfill(d) ==
  LET d1 == Backfill1(d, K_USER_nImgPerFr, IntV(1))
      d2 == Backfill1(d1, K_USER_dxFrDecoded, IntV(0))
      d3 == Backfill1(d2, K_USER_dyFrDecoded, IntV(0))
      d4 == Backfill1(d3, K_USER_dzFrDecoded, IntV(0))
      d5 == Backfill1(d4, K_USER_dzFr, IntV(1))
      d6 == Backfill1(d5, K_NumberOfPixBufsSet, Get(d5, K_NumberOfFrames))
      d7 == Backfill1(d6, K_PixBufCounter, Get(d6, K_FrameCounter))
      d8 == Backfill1(d7, K_USER_stimBufPerFr, IntV(1))
      d9 == Backfill1(d8, K_USER_aspectRatioFrame, IntV(1))
  IN d9

\* x == n for a parameter value x and a Python int n
EqInt(v, n) == IsInt(v) /\ v.i = n

\* dxFr_pix / (dxRetrace_pix + dxOffs_pix) < 4, the sum not 0
RatioBelow4(dx, sum) == IF sum > 0 THEN dx < 4 * sum ELSE dx > 4 * sum

\* scanm_smh.py 280-285: a decoded frame dimension of 0 becomes the raw one
DecodedDefault(d, keyDec, keyRaw) ==
  IF EqInt(Get(d, keyDec), 0) THEN Set(d, keyDec, Get(d, keyRaw)) ELSE d

\* scanm_smh.py 268-285: corrections for older files.  The parameters of
\* the header files of the model are ints, strs or None; an arithmetic
\* operand that is no int raises TypeError, a sum of 0 ZeroDivisionError.
LegacyCorrection(d) ==
  IF ~EqInt(Get(d, K_USER_ScanMode), ScM_scanMode_XYImage) THEN Go(d)
  ELSE
    LET dx == Get(d, K_USER_dxPix)
        retr == Get(d, K_USER_nPixRetrace)
        offs == Get(d, K_USER_nXPixLineOffs)
        spf == Get(d, K_USER_scanPathFunc)
    IN IF ~(IsInt(dx) /\ IsInt(retr) /\ IsInt(offs)) THEN Raise(d)
       ELSE IF retr.i + offs.i = 0 THEN Raise(d)
       ELSE
         LET r == IF ~RatioBelow4(dx.i, retr.i + offs.i) THEN Go(d)
                  ELSE IF ~CanSubscript(spf, 3 + 1) THEN Raise(d)
                  ELSE LET d1 == Set(d, K_USER_nPixRetrace, Subscript(spf, 3 + 1))
                       IN IF ~CanSubscript(spf, 4 + 1) THEN Raise(d1)
                          ELSE Go(Set(d1, K_USER_nXPixLineOffs, Subscript(spf, 4 + 1)))
         IN IF ~r.ok THEN r
            ELSE Go(DecodedDefault(
                      DecodedDefault(
                        DecodedDefault(r.d, K_USER_dxFrDecoded, K_USER_dxPix),
                        K_USER_dyFrDecoded, K_USER_dyPix),
                      K_USER_dzFrDecoded, K_USER_dzPix))

\* max(1, v) for an int v
Max1_same(n) == n

Max1(n) == IF n > 1 THEN n ELSE 1

\* scanm_smh.py 287-298: the three entries that are at least 1.  max(1, v)
\* raises TypeError when v is a str, a list or None.
RECURSIVE ClampKeys(_, _)
ClampKeys(d, keys) ==
  IF keys = <<>> THEN Go(d)
  ELSE LET v == Get(d, Head(keys)) IN
       IF ~IsInt(v) THEN Raise(d)
       ELSE ClampKeys(Set(d, Head(keys), IntV(Max1(v.i))), Tail(keys))

ClampMin1(d) ==
  ClampKeys(d, <<K_USER_aspectRatioFrame, K_USER_stimBufPerFr, K_USER_nImgPerFr>>)

\* the next step of loadSMH, unless a step before it has raised
Then(r, Step(_)) == IF ~r.ok THEN r ELSE Step(r.d)

\* scanm_smh.py 228-298
BackfillAndCorrect(d) == Then(LegacyCorrection(Backfill(d)), ClampMin1)

\* scanm_smh.py 146-298: everything loadSMH does to the dictionary after
\* the parsing loop, stopping at the first step that raises
PostParse(d, errs) ==
  Then(Then(Then(Then(RepairKeys(d, errs, 1), StimLists), StimBufMap),
            InputChans),
       BackfillAndCorrect)

(***************************************************************************)
(* Files.  A path names a header file <path>.smh and a pixel data file     *)
(* <path>.smp.  The header file is given by the value tokens of its        *)
(* parameter lines ("" : the file has no such line); the pixel data file   *)
(* by the number of samples it holds.                                      *)
(***************************************************************************)
U32(key, tok) == IF tok = "" THEN <<>> ELSE <<Line(SCMIO_uint32Str, key, <<tok>>)>>

U64(key, tok) == IF tok = "" THEN <<>> ELSE <<Line(SCMIO_uint64Str, key, <<tok>>)>>

R32(key, tok) == IF tok = "" THEN <<>> ELSE <<Line(SCMIO_real32Str, key, <<tok>>)>>

\* number of "PixelBuffer_#n_Length" lines: one per active input channel
NPixBufLines(maskTok) ==
  IF IsNumeral(maskTok) THEN Len(ActiveChans(ParseInt(maskTok))) ELSE 0

\* The decoded, non-empty lines `kvl` of the header file with parameter
\* tokens p (scanm_smh.py 66-95 yields them from the file).
HeaderLines(p) ==
  IF p.noLines THEN <<>> ELSE
     U32(K_PixelSizeInBytes, p.pix)
  \o U32(K_StimulusChannelMask, "1")
  \o U32(K_MaxStimBufMapLen, "1")
  \o U32(K_NumberOfStimBufs, "1")
  \o U32(SCMIO_key_StimBufLen_x(0), p.L)
  \o R32(SCMIO_key_Ch_x_TargetedStimDur(0), p.tdur)
  \o R32(SCMIO_key_AO_x_Ch_x_RealStimDur(0), "12")
  \o U64(SCMIO_key_Ch_x_StimBufMapEntr_y(0, 0), p.mapEntr)
  \o U32(K_InputChannelMask, p.mask)
  \o [j \in 1..NPixBufLines(p.mask) |->
        Line(SCMIO_uint32Str, SCMIO_key_InputCh_x_PixBufLen(j - 1), <<p.L>>)]
  \o U32(K_NumberOfFrames, p.nFrames)
  \o U32(K_FrameCounter, p.frCounter)
  \o U32(K_NumberOfPixBufsSet, p.bufsSet)
  \o U32(K_PixBufCounter, p.bufCounter)
  \o U32(K_USER_ScanMode, p.mode)
  \o U32(K_USER_ScanType, p.type)
  \o U32(K_USER_dxPix, p.dx)
  \o (IF p.dySub = <<>> THEN U32(K_USER_dyPix, p.dy)
      ELSE <<Line(SCMIO_stringStr, K_USER_dyPix, p.dySub)>>)
  \o U32(K_USER_dzPix, p.dz)
  \o (IF p.spf = <<>> THEN <<>>
      ELSE <<Line(SCMIO_stringStr, K_USER_scanPathFunc, p.spf)>>)
  \o U32(K_USER_nPixRetrace, p.retr)
  \o U32(K_USER_nXPixLineOffs, p.offs)
  \o U32(K_USER_NFrPerStep, p.nFrPerStep)
  \o U32(K_USER_stimBufPerFr, p.stimBufPerFr)
  \o U32(K_USER_nImgPerFr, p.nImgPerFr)
  \o U32(K_USER_aspectRatioFrame, p.aspect)

\* the numeral of n
Num(n) == Numerals[n + 1]

\* The parameters of a recording of the current file format: XYImage, a
\* frame of 2 x 1 pixels, one pixel buffer per frame, input channels 0
\* and 1, one frame recorded; the scan path function descriptor is
\* [name, buffer length, dx, dy, retrace, offset, ...].  dySub: the
\* sub-values of a frame height line of type String (<<>>: the line is of
\* type UINT32 and holds dy).
BasePar ==
  [noLines |-> FALSE, pix |-> "2", L |-> "2", mask |-> "3",
   nFrames |-> "1", frCounter |-> "1", bufsSet |-> "1", bufCounter |-> "1",
   mode |-> "0", type |-> "10", dx |-> "2", dy |-> "1", dz |-> "",
   spf |-> <<"XYScan2", "2", "2", "1", "1", "0", "0", "1">>,
   retr |-> "1", offs |-> "0", nFrPerStep |-> "1", stimBufPerFr |-> "1",
   nImgPerFr |-> "1", tdur |-> "12", mapEntr |-> "0", dySub |-> <<>>,
   aspect |-> ""]

\* A pair of files: the header file exists / has a readable pre-header with
\* identifier guid; the pixel data file exists / has a readable trailer
\* with identifier smpGuid / supplies smpSamples samples to the reads
\* before its end.
File(par, smpSamples) ==
  [hdrExists |-> TRUE, hdrPreOK |-> TRUE, guid |-> "a1", par |-> par,
   smpExists |-> TRUE, smpPostOK |-> TRUE, smpGuid |-> "a1",
   smpSamples |-> smpSamples]

\* The path "" of a reset object: neither file exists.
NoPath ==
  [hdrExists |-> FALSE, hdrPreOK |-> FALSE, guid |-> "", par |-> BasePar,
   smpExists |-> FALSE, smpPostOK |-> FALSE, smpGuid |-> "",
   smpSamples |-> 0]

\* The sample at position k (from 1) of a pixel data file.  Samples at
\* different positions differ, so that a misplaced sample shows.
Sample(k) == k

(***************************************************************************)
(* The files of the model, in the sets the specifications below load from  *)
(***************************************************************************)
\* the scan path function descriptor of BasePar with another name
Descriptor(name) == <<name, "2", "2", "1", "1", "0", "0", "1">>

\* BasePar with nb pixel buffers set, none of them counted as consumed
WithBufs(par, nb) == [par EXCEPT !.bufsSet = Num(nb), !.bufCounter = Num(nb)]

\* Recordings that load, and one file for each way in which a load ends
\* early: the header file is absent, has no pre-header, has no parameter
\* lines; the pixel data file is absent, has no trailer, is of another
\* recording, is too short; another scan mode; no input channel; retrace
\* and offset of 0; an external scan path function; a z-stack with 2
\* frames per step; 4 bytes per pixel; 2 images per frame; 2 planes.
StateFiles ==
  {File(BasePar, Plenty),
   File(WithBufs([BasePar EXCEPT !.mask = "5", !.L = "1"], MaxBufs), Plenty),
   [File(BasePar, Plenty) EXCEPT !.hdrExists = FALSE],
   [File(BasePar, Plenty) EXCEPT !.hdrPreOK = FALSE],
   File([BasePar EXCEPT !.noLines = TRUE], Plenty),
   [File(BasePar, Plenty) EXCEPT !.smpExists = FALSE],
   [File(BasePar, Plenty) EXCEPT !.smpPostOK = FALSE],
   [File(BasePar, Plenty) EXCEPT !.smpGuid = "b2"],
   File(BasePar, 3),
   File([BasePar EXCEPT !.mode = "1"], Plenty),
   File([BasePar EXCEPT !.mask = "0"], Plenty),
   File([BasePar EXCEPT !.retr = "0", !.offs = "0"], Plenty),
   File([BasePar EXCEPT !.spf = Descriptor("MyScan")], Plenty),
   File([BasePar EXCEPT !.type = "11", !.nFrPerStep = "2"], Plenty),
   File([BasePar EXCEPT !.pix = "4"], Plenty),
   File([BasePar EXCEPT !.nImgPerFr = "2"], Plenty),
   File([BasePar EXCEPT !.dz = "2"], Plenty)}

\* every scan mode, one beyond the last, and a header without the entry
ModeFiles ==
  {File([BasePar EXCEPT !.mode = m], Plenty) :
     m \in {""} \cup {Num(x) : x \in 0..Len(ScM_scanModeStr)}}

\* a fast axis of 8 pixels with every retrace length and line offset up
\* to 2 (their sum is at most a quarter of the fast axis, or is replaced
\* by the values of the scan path function descriptor)
CropFiles ==
  {File([BasePar EXCEPT !.dx = "8", !.L = "8", !.mask = "1",
                        !.spf = <<"XYScan2", "8", "8", "1", "1", "0", "0", "1">>,
                        !.retr = Num(r), !.offs = Num(o)], Plenty) :
     r \in 0..2, o \in 0..2}

\* older files: the retrace length and the line offset are taken from the
\* scan path function descriptor
LegacyFiles ==
  {File([BasePar EXCEPT !.mask = "1",
                        !.spf = <<"XYScan2", "2", "2", "1", Num(r), Num(o), "0", "1">>],
        Plenty) :
     r \in 0..2, o \in 0..2}

\* every input channel mask, MaxBufs buffers of 2 samples per channel
MaskFiles ==
  {File(WithBufs([BasePar EXCEPT !.mask = Num(m)], MaxBufs), Plenty) :
     m \in 0..(2 ^ SCMIO_maxInputChans - 1)}

\* the buffer counts (in the entries of the current format and in those of
\* older files), the stimulus buffers per frame, a pixel buffer of two
\* frames, and z-stacks
CountFiles ==
  UNION {{File([BasePar EXCEPT !.mask = "1", !.stimBufPerFr = k,
                               !.bufsSet = Num(s), !.bufCounter = Num(c)], Plenty) :
            c \in 0..s, k \in {"1", "2"}} : s \in 0..MaxBufs}
  \cup {File([BasePar EXCEPT !.mask = "1", !.stimBufPerFr = k,
                             !.bufsSet = "", !.bufCounter = "",
                             !.nFrames = Num(MaxBufs), !.frCounter = "1"], Plenty) :
          k \in {"", "0"}}
  \cup {File(WithBufs([BasePar EXCEPT !.mask = "1", !.L = "4"], s), Plenty) :
          s \in 1..MaxBufs}
  \cup {File([BasePar EXCEPT !.mask = "1", !.type = "11", !.nFrPerStep = n], Plenty) :
          n \in {"1", "2"}}
  \cup {File([BasePar EXCEPT !.mask = "1", !.nImgPerFr = "2"], Plenty)}

\* the frame geometry and the pixel buffer length
GeomFiles ==
  {File(WithBufs([BasePar EXCEPT !.mask = "1", !.L = l, !.dy = dy, !.dz = dz],
                 MaxBufs), Plenty) :
     l \in {"1", "2", "3"}, dy \in {"0", "1", "2"}, dz \in {"", "2"}}

\* pixel data files of every length up to a little more than the load
\* reads (MaxBufs buffers, two channels of 2 samples each), for a built-in
\* and an external scan path function
ReadFiles ==
  {File(WithBufs([BasePar EXCEPT !.spf = Descriptor(name)], MaxBufs), n) :
     n \in 0..(4 * MaxBufs + MaxSlack), name \in {"XYScan2", "MyScan"}}

\* an external and a built-in scan path function, with every count of
\* pixel buffers up to MaxBufs, no, one and two input channels, and a
\* pixel data file that is complete or holds no sample
ExtFiles ==
  {File(WithBufs([BasePar EXCEPT !.spf = Descriptor(name), !.mask = m], nb), n) :
     name \in {"MyScan", "XYScan2"}, m \in {"0", "1", "3"}, nb \in 0..MaxBufs,
     n \in {0, Plenty}}

\* Headers on which loadSMH raises after it has stored entries (in the
\* parsing loop, after the pixel size of 8; in the correction for older
\* files, with 2 stimulus buffers per frame), headers without the line of
\* the pixel size or of the stimulus buffers per frame, a complete
\* header, and an absent header file
StaleFiles ==
  {File([BasePar EXCEPT !.pix = "8", !.tdur = "x"], Plenty),
   File([BasePar EXCEPT !.retr = "0", !.offs = "0", !.stimBufPerFr = "2"], Plenty),
   File([BasePar EXCEPT !.pix = ""], Plenty),
   File([BasePar EXCEPT !.stimBufPerFr = ""], Plenty),
   File(BasePar, Plenty),
   [File(BasePar, Plenty) EXCEPT !.hdrExists = FALSE]}

\* the values a header gives to an entry that loadSMH clamps: none, 0, a
\* token that is no number, "nan", and 2
ClampTokens == {"", "0", "x", "nan", "2"}

\* headers that give such a value to one of the three clamped entries, or
\* to all three, in scan mode XYImage and in scan mode XYZImage
ClampFiles ==
  {File([BasePar EXCEPT !.mode = md, !.nImgPerFr = t], Plenty) :
     md \in {"0", "3"}, t \in ClampTokens}
  \cup {File([BasePar EXCEPT !.mode = md, !.stimBufPerFr = t], Plenty) :
          md \in {"0", "3"}, t \in ClampTokens}
  \cup {File([BasePar EXCEPT !.mode = md, !.aspect = t], Plenty) :
          md \in {"0", "3"}, t \in ClampTokens}
  \cup {File([BasePar EXCEPT !.mode = md, !.nImgPerFr = t, !.stimBufPerFr = t,
                             !.aspect = t], Plenty) :
          md \in {"0", "3"}, t \in ClampTokens}

\* value tokens that are no number, and "nan", in lines of each numeric
\* type: REAL32 (the targeted stimulus duration), UINT64 (a stimulus
\* buffer map entry), UINT32 (the frame height, and the retrace length,
\* which the repair pass recovers; the images per frame, which the
\* backfill step sets; the number of frames); and a frame height line of
\* type String with two sub-values
ParseFiles ==
  {File([BasePar EXCEPT !.offs = "1", !.tdur = t], Plenty) : t \in {"12", "x", "nan"}}
  \cup {File([BasePar EXCEPT !.offs = "1", !.mapEntr = "x"], Plenty)}
  \cup {File([BasePar EXCEPT !.offs = "1", !.dy = y, !.retr = r], Plenty) :
          y \in {"1", "x", "nan"}, r \in {"1", "x"}}
  \cup {File([BasePar EXCEPT !.offs = "1", !.dySub = <<"1", "2">>], Plenty)}
  \cup {File([BasePar EXCEPT !.offs = "1", !.nImgPerFr = "x", !.nFrames = "x"],
              Plenty)}

\* every file of the model
AllFiles ==
  StateFiles \cup ModeFiles \cup CropFiles \cup LegacyFiles \cup MaskFiles
  \cup CountFiles \cup GeomFiles \cup ReadFiles \cup ParseFiles \cup ExtFiles
  \cup ClampFiles \cup StaleFiles

(***************************************************************************)
(* The SMP object                                                          *)
(***************************************************************************)
\* an empty pre-header dictionary, dict()
EmptyPreHdr == [has |-> FALSE, GUID |-> ""]

\* the dictionary scm_load_pre_header returns (the identifier only)
PreHdr(guid) == [has |-> TRUE, GUID |-> guid]

\* An attribute that __init__ and _reset do not assign (_wPixData, _nFr,
\* _StimBuf, _dFast ...) exists only once a statement has assigned it:
\* `has` tells whether it exists, `v` is its value then.
Attr(v) == [has |-> TRUE, v |-> v]

NoAttr(v) == [has |-> FALSE, v |-> v]

NoGeom == [dFast |-> 0, nFastPixRetr |-> 0, nFastPixOff |-> 0, dSlow1 |-> 0, dSlow2 |-> 0]

\* the object after SMP.__init__
NewSMP ==
  [isSMHReady |-> FALSE, isSMPReady |-> FALSE, kvPairDict |-> EmptyDict,
   SMHPreHdrDict |-> EmptyPreHdr, SMPPreHdrDict |-> EmptyPreHdr,
   fPath |-> NoPath, StimBuf |-> NoAttr(FALSE), nFr |-> NoAttr(0),
   wPixData |-> NoAttr(<<>>), geom |-> NoAttr(NoGeom)]

\* SMH._reset (scanm_smh.py 26-32)
SMH_reset(h) ==
  [h EXCEPT !.SMHPreHdrDict = EmptyPreHdr, !.kvPairDict = EmptyDict,
            !.fPath = NoPath, !.isSMHReady = FALSE]

\* a reset that leaves out the two assignments of SMP._reset
SMP_reset_inherited(h) == SMH_reset(h)

\* SMP._reset (scanm_smp.py 29-34)
SMP_reset(h) ==
  SMH_reset([h EXCEPT !.isSMPReady = FALSE, !.SMPPreHdrDict = EmptyPreHdr])

\* the outcome of a call: the object after it and the code it returned
\* (RAISED: it raised)
Outcome(h, ret) == [h |-> h, ret |-> ret]

\* scanm_smh.py 101-298: the parsing loop and the steps after it, on the
\* dictionary d and the lines kvl
ReadHeader_parsed(p) ==
  IF ~p.ok THEN Raise(p.d) ELSE PostParse(p.d, p.errs)

ReadHeader(d, kvl) == ReadHeader_parsed(ParseLines(d, <<>>, kvl, 1))

\* scanm_smh.py 103-144: the outcome of the parsing loop for each header
\* of the model, on an empty dictionary (whether an iteration raises, and
\* the list key_w_err, do not depend on the dictionary)
HeadersParsed ==
  [par \in {f.par : f \in AllFiles} |->
     ParseLines(EmptyDict, <<>>, HeaderLines(par), 1)]

\* ReadHeader on an empty dictionary, for each header of the model
HeadersRead ==
  EmptyDict @@ [par \in {f.par : f \in AllFiles} |->
                  ReadHeader(EmptyDict, HeaderLines(par))]

\* scanm_smh.py 300-306
loadSMH_finish(h, q) ==
  IF ~q.ok THEN Outcome([h EXCEPT !.kvPairDict = q.d], RAISED)
  ELSE Outcome([h EXCEPT !.kvPairDict = q.d, !.isSMHReady = TRUE], ERR_Ok)

\* scanm_smh.py 60-306: the lines of the header with tokens par are read
\* into the dictionary
loadSMH_lines(h, par) ==
  \* nkv == 0: `ERRStr(errC)` calls a list, which raises TypeError
  IF par.noLines THEN Outcome(h, RAISED)
  ELSE loadSMH_finish(h, IF h.kvPairDict = EmptyDict /\ par \in DOMAIN HeadersRead
                         THEN HeadersRead[par]
                         ELSE ReadHeader(h.kvPairDict, HeaderLines(par)))

\* scanm_smh.py 41-56: f the files that fName names
loadSMH_file(h, f) ==
  IF ~f.hdrExists THEN Outcome(h, ERR_FileNotFound)
  ELSE IF ~f.hdrPreOK THEN Outcome([h EXCEPT !.fPath = f], RAISED)
  ELSE loadSMH_lines([h EXCEPT !.fPath = f, !.SMHPreHdrDict = PreHdr(f.guid)],
                     f.par)

\* SMH.loadSMH(fName) (scanm_smh.py 34-306) of an SMP object
loadSMH(h, f) == loadSMH_file(IF h.isSMHReady THEN SMP_reset(h) ELSE h, f)

\* the step at which loadSMH(f) ends when its outcome is ret: the file
\* check (45-48), the pre-header (56), the count of the lines (96-99), the
\* parsing loop (103-144), the steps after it (146-298), or its end
loadSMH_stage(f, ret) ==
  IF ~f.hdrExists THEN "file"
  ELSE IF ~f.hdrPreOK THEN "prehdr"
  ELSE IF f.par.noLines THEN "nolines"
  ELSE IF ~HeadersParsed[f.par].ok THEN "parse"
  ELSE IF ret = RAISED THEN "post"
  ELSE "done"

(***************************************************************************)
(* loadSMP: arithmetic                                                     *)
(***************************************************************************)
\* int(a / b) for ints a, b with b > 0: Python's true division followed by
\* truncation toward zero (the model computes it exactly, without the
\* rounding of floats)
TruncDiv(a, b) == IF a >= 0 THEN a \div b ELSE 0 - ((0 - a) \div b)

\* scanm_smp.py 110-111: a slow axis of 0 pixels counts as 1
SlowAxis(n) == IF n > 0 THEN n ELSE 1

\* scanm_smp.py 168-171: the pixel buffers set that count, in frames
BufsCounted(nPixBufsSet, pixBufCounter) ==
  IF nPixBufsSet = pixBufCounter THEN nPixBufsSet ELSE nPixBufsSet - pixBufCounter

\* scanm_smp.py 166-172: nPixB = int(counted * (nPixPerFr / pixBLen) * nFrPerStep)
NPixB(counted, nPixPerFr, pixBLen, nFrPerStep) ==
  TruncDiv(counted * nPixPerFr * nFrPerStep, pixBLen)

\* scanm_smp.py 175: int((nPixB / nFrPerStep * pixBLen) / nPixPerFr * nImgPerFr)
NFr(nPixB, nFrPerStep, pixBLen, nPixPerFr, nImgPerFr) ==
  TruncDiv(nPixB * pixBLen * nImgPerFr, nFrPerStep * nPixPerFr)

\* scanm_smp.py 220: the length of a channel's flat buffer
ChanBufLen(nPixB, nFrPerStep, pixBLen) == TruncDiv(nPixB * pixBLen, nFrPerStep)

(***************************************************************************)
(* loadSMP: reading and demultiplexing                                     *)
(***************************************************************************)
\* np.zeros(n)
Zeros(n) == [j \in 1..n |-> 0]

\* an entry [iInCh, array] of _wPixData; shape <<n>> is a flat array
Chan(ch, data, shape) == [ch |-> ch, data |-> data, shape |-> shape]

\* scanm_smp.py 211-221: one flat array of zeros per active input channel
AllocChans(mask, n) ==
  LET act == ActiveChans(mask) IN
  [r \in 1..Len(act) |-> Chan(act[r], Zeros(n), <<n>>)]

\* scanm_smp.py 256, 263: the iPixBPerCh-th buffer of npx samples
ReadBuffer(iPixBPerCh, npx) ==
  [x \in 1..npx |-> Sample(iPixBPerCh * npx + x)]

\* a slice that is the first channel's for every channel
ChanSlice_first(wPixBAllCh, iCh, pixBLen) == SubSeq(wPixBAllCh, 1, pixBLen)

\* scanm_smp.py 267: the slice of the buffer of the iCh-th active channel
ChanSlice(wPixBAllCh, iCh, pixBLen) ==
  SubSeq(wPixBAllCh, iCh * pixBLen + 1, (iCh + 1) * pixBLen)

\* scanm_smp.py 272, 348: the index j of the entry of channel iInCh
FindChan(wPixData, iInCh) ==
  CHOOSE j \in 1..Len(wPixData) :
    /\ wPixData[j].ch = iInCh
    /\ \A x \in 1..(j - 1) : wPixData[x].ch # iInCh

\* scanm_smp.py 273-275: data[m:n] = wPixB[:]
StoreSlice(data, iPixBPerCh, pixBLen, wPixB) ==
  SubSeq(data, 1, iPixBPerCh * pixBLen) \o wPixB
    \o SubSeq(data, (iPixBPerCh + 1) * pixBLen + 1, Len(data))

\* scanm_smp.py 264-275, 331-332: the channel loop for one buffer; iCh is
\* the running count of the active channels
RECURSIVE DemuxBuffer(_, _, _, _, _, _, _)
DemuxBuffer(wPixData, wPixBAllCh, mask, iInCh, iCh, iPixBPerCh, pixBLen) ==
  IF iInCh >= SCMIO_maxInputChans THEN wPixData
  ELSE IF ~Bit(mask, iInCh)
  THEN DemuxBuffer(wPixData, wPixBAllCh, mask, iInCh + 1, iCh, iPixBPerCh, pixBLen)
  ELSE LET j == FindChan(wPixData, iInCh)
           w == [wPixData EXCEPT ![j].data =
                   StoreSlice(@, iPixBPerCh, pixBLen,
                              ChanSlice(wPixBAllCh, iCh, pixBLen))]
       IN DemuxBuffer(w, wPixBAllCh, mask, iInCh + 1, iCh + 1, iPixBPerCh, pixBLen)

\* a read that never finds the end of the file
Eof_never(smpSamples, iPixBPerCh, npx) == FALSE

\* scanm_smp.py 258: the file ends before the buffer is complete
Eof(smpSamples, iPixBPerCh, npx) == smpSamples < (iPixBPerCh + 1) * npx

\* scanm_smp.py 254-332: one pass of the loop over the buffers; ok = FALSE
\* when the file ended (the arrays then hold the buffers read before)
ReadOne(wPixData, iPixBPerCh, npx, mask, pixBLen, smpSamples) ==
  IF Eof(smpSamples, iPixBPerCh, npx) THEN [ok |-> FALSE, w |-> wPixData]
  ELSE [ok |-> TRUE,
        w |-> DemuxBuffer(wPixData, ReadBuffer(iPixBPerCh, npx), mask, 0, 0,
                          iPixBPerCh, pixBLen)]

\* scanm_smp.py 253-334 for a built-in scan path function: the buffers
\* iPixBPerCh .. nPixB-1, in this order, after the passes with outcome r
RECURSIVE ReadLoop(_, _, _, _, _, _, _)
ReadLoop(r, iPixBPerCh, nPixB, npx, mask, pixBLen, smpSamples) ==
  IF ~r.ok \/ iPixBPerCh >= nPixB THEN r
  ELSE ReadLoop(ReadOne(r.w, iPixBPerCh, npx, mask, pixBLen, smpSamples),
                iPixBPerCh + 1, nPixB, npx, mask, pixBLen, smpSamples)

\* a reshape that takes any shape
CanReshape_any(n, shape) == TRUE

\* scanm_smp.py 350: array.shape = shape succeeds (no ValueError)
CanReshape(n, shape) ==
  /\ \A x \in 1..Len(shape) : shape[x] >= 0
  /\ n = shape[1] * shape[2] * shape[3]

\* scanm_smp.py 341-352: the channel arrays after the reshape loop
Reshape(wPixData, shape) ==
  [j \in 1..Len(wPixData) |-> [wPixData[j] EXCEPT !.shape = shape]]

(***************************************************************************)
(* loadSMP                                                                 *)
(***************************************************************************)
\* the outcome of loadSMP: the object after the call, the code returned
\* (RAISED: it raised), and the step at which the call ended
OutcomeAt(h, ret, stage) == [h |-> h, ret |-> ret, stage |-> stage]

\* a loadSMP that clears the object whatever its state
ClearsFirst_always(h) == TRUE

\* a loadSMP that never clears the object
ClearsFirst_never(h) == FALSE

\* scanm_smp.py 45: the object is cleared first
ClearsFirst(h) == h.isSMPReady

\* scanm_smp.py 59: ScM_scanModeStr[scanMode] is defined (a Python list
\* of 8 items takes the indices -8 .. 7)
CanNameScanMode(scanMode) ==
  IsInt(scanMode) /\ scanMode.i >= 0 - Len(ScM_scanModeStr)
                  /\ scanMode.i < Len(ScM_scanModeStr)

\* StimBuf._populate (scanm_stim_buf.py 31-44) raises
StimBufRaises(d) ==
  \/ ~CanSubscript(Get(d, K_InChan_PixBufLenList), 0)
  \/ ~CanSubscript(Get(d, K_USER_scanPathFunc), 0)

\* scanm_stim_buf.py 34-36
isExtScanFunction(d) ==
  ~(Subscript(Get(d, K_USER_scanPathFunc), 0).s \in ScM_simpleScanFuncList)

\* a count that is not multiplied
ScaleCount_keeps(d, key, k) == IF ~IsInt(Get(d, key)) THEN Raise(d) ELSE Go(d)

\* scanm_smp.py 160-162: `nPixBufsSet *= nStimBufPerFr` and the same for
\* pixBufCounter, in the dictionary; None * int raises TypeError (after the
\* first product is stored, when the second raises)
ScaleCount(d, key, k) ==
  IF ~IsInt(Get(d, key)) THEN Raise(d)
  ELSE Go(Set(d, key, IntV(Get(d, key).i * k)))

ScaleBufCounts(d) ==
  LET k == Get(d, K_USER_stimBufPerFr) IN
  IF ~IsInt(k) THEN Raise(d)
  ELSE IF k.i > 0
  THEN Then(ScaleCount(d, K_NumberOfPixBufsSet, k.i),
            LAMBDA x : ScaleCount(x, K_PixBufCounter, k.i))
  ELSE Go(d)

\* scanm_smp.py 225-389: reading, reshaping and saving.  h: the object
\* with the arrays allocated; n: their length; shape: the target shape
loadSMP_read(h, isAvZStack, nPixB, npx, mask, pixBLen, n, shape, rd) ==
  \* 235-244
  IF isAvZStack THEN OutcomeAt(h, ERR_NotImplemented, "zstack")
  \* 253-286: with an external scan path function the first buffer is
  \* read and the call returns at its first active channel
  ELSE IF h.StimBuf.v /\ nPixB > 0 /\ ActiveChans(mask) # <<>>
  THEN IF Eof(h.fPath.smpSamples, 0, npx) THEN OutcomeAt(h, RAISED, "read")
       ELSE OutcomeAt(h, ERR_NotImplemented, "external")
  \* 253-261: the file ended
  ELSE IF ~rd.ok THEN OutcomeAt([h EXCEPT !.wPixData = Attr(rd.w)], RAISED, "read")
  \* 339-375: the reshape of the array of each active channel
  ELSE IF ActiveChans(mask) # <<>> /\ ~CanReshape(n, shape)
  THEN OutcomeAt([h EXCEPT !.wPixData = Attr(rd.w)],
                 ERR_CannotReshapePixelData, "reshape")
  \* 377-382: int(None) raises TypeError
  ELSE IF ~(CanInt(Get(h.kvPairDict, K_USER_nPixRetrace))
            /\ CanInt(Get(h.kvPairDict, K_USER_nXPixLineOffs)))
  THEN OutcomeAt([h EXCEPT !.wPixData = Attr(Reshape(rd.w, shape))], RAISED, "save")
  ELSE OutcomeAt(
         [h EXCEPT !.wPixData = Attr(Reshape(rd.w, shape)),
                   !.geom = Attr([dFast |-> shape[3],
                                  nFastPixRetr |-> ToInt(Get(h.kvPairDict, K_USER_nPixRetrace)),
                                  nFastPixOff |-> ToInt(Get(h.kvPairDict, K_USER_nXPixLineOffs)),
                                  dSlow1 |-> SlowAxis(Get(h.kvPairDict, K_USER_dyPix).i),
                                  dSlow2 |-> SlowAxis(Get(h.kvPairDict, K_USER_dzPix).i)]),
                   !.isSMPReady = TRUE],
         ERR_Ok, "done")

\* scanm_smp.py 176-223: the arrays are allocated.  h: the object with
\* _nFr set
loadSMP_alloc(h, isAvZStack, nPixB, nAICh, mask, pixBLen, n, nImgPerFr, dSlow1, dFast) ==
  \* 176: assert
  IF nImgPerFr # 1 THEN OutcomeAt(h, RAISED, "nImgPerFr")
  \* 206-221: np.zeros(n) raises ValueError for n < 0
  ELSE IF n < 0 THEN OutcomeAt([h EXCEPT !.wPixData = Attr(<<>>)], RAISED, "alloc")
  ELSE loadSMP_read([h EXCEPT !.wPixData = Attr(AllocChans(mask, n))],
                    isAvZStack, nPixB, pixBLen * nAICh, mask, pixBLen, n,
                    <<h.nFr.v, dSlow1 \div nImgPerFr, dFast>>,
                    ReadLoop([ok |-> TRUE, w |-> AllocChans(mask, n)], 0, nPixB,
                             pixBLen * nAICh,
                             mask, pixBLen, h.fPath.smpSamples))

\* scanm_smp.py 165-175: the numbers of buffers and frames
loadSMP_frames(h, nFrPerStep, isAvZStack, pixBLen, nPixPerFr, counted, nImgPerFr, dSlow1, dFast, nPixB) ==
  loadSMP_alloc([h EXCEPT !.nFr = Attr(NFr(nPixB, nFrPerStep, pixBLen, nPixPerFr, nImgPerFr))],
                isAvZStack, nPixB, Get(h.kvPairDict, K_NumberOfInputChans).i,
                Get(h.kvPairDict, K_InputChannelMask).i, pixBLen,
                ChanBufLen(nPixB, nFrPerStep, pixBLen), nImgPerFr, dSlow1, dFast)

\* scanm_smp.py 165-175: the operands.  An operand that is None raises
\* TypeError; a division by 0 yields inf or nan, of which int() raises.
\* (The lengths of the model's header files are not negative.)
loadSMP_count(h, nFrPerStep, isAvZStack, d) ==
  LET pixBLen == Subscript(Get(d, K_InChan_PixBufLenList), 0)
      dFast == Get(d, K_USER_dxPix)
      nSet == Get(d, K_NumberOfPixBufsSet)
      nCnt == Get(d, K_PixBufCounter)
      nImg == Get(d, K_USER_nImgPerFr)
      dSlow1 == SlowAxis(Get(d, K_USER_dyPix).i)
      dSlow2 == SlowAxis(Get(d, K_USER_dzPix).i)
  IN
  IF ~(IsInt(pixBLen) /\ IsInt(dFast) /\ IsInt(nSet) /\ IsInt(nCnt) /\ IsInt(nImg))
  THEN OutcomeAt(h, RAISED, "count")
  ELSE IF pixBLen.i <= 0 \/ dFast.i * dSlow1 * dSlow2 <= 0
  THEN OutcomeAt(h, RAISED, "count")
  ELSE loadSMP_frames(h, nFrPerStep, isAvZStack, pixBLen.i,
                      dFast.i * dSlow1 * dSlow2,
                      BufsCounted(nSet.i, nCnt.i), Max1(nImg.i), dSlow1, dFast.i,
                      NPixB(BufsCounted(nSet.i, nCnt.i), dFast.i * dSlow1 * dSlow2,
                            pixBLen.i, nFrPerStep))

\* h with the dictionary of r; the call raises when r is not ok
loadSMP_scaled(h, nFrPerStep, isAvZStack, r) ==
  IF ~r.ok THEN OutcomeAt([h EXCEPT !.kvPairDict = r.d], RAISED, "count")
  ELSE loadSMP_count([h EXCEPT !.kvPairDict = r.d], nFrPerStep, isAvZStack, r.d)

\* scanm_smp.py 104-389: loadSMP from the frame geometry on.  h: the
\* object with _StimBuf and _SMPPreHdrDict set; nFrPerStep and isAvZStack
\* as computed in lines 81-83.
loadSMP_pixels(h, nFrPerStep, isAvZStack) ==
  \* 110-111: None > 0 raises TypeError
  IF ~(IsInt(Get(h.kvPairDict, K_USER_dyPix)) /\ IsInt(Get(h.kvPairDict, K_USER_dzPix)))
  THEN OutcomeAt(h, RAISED, "geometry")
  \* 154: assert
  ELSE IF ~(EqInt(Get(h.kvPairDict, K_PixelSizeInBytes), 2)
            \/ EqInt(Get(h.kvPairDict, K_PixelSizeInBytes), 8))
  THEN OutcomeAt(h, RAISED, "pixsize")
  ELSE loadSMP_scaled(h, nFrPerStep, isAvZStack, ScaleBufCounts(h.kvPairDict))

\* scanm_smp.py 77-102: the stimulus buffer, the scan type and the trailer
\* of the pixel data file (a GUID that differs from the header's is logged
\* only)
\* scanm_smp.py 97-102: whether the load ends when the GUID gp of the
\* pixel data file is not the GUID gh of the header file; the mismatch is
\* logged and the load goes on
GUIDMismatchEnds_fatal(gp, gh) == gp # gh

GUIDMismatchEnds(gp, gh) == FALSE

loadSMP_prepare(h) ==
  LET d == h.kvPairDict
      nFrPerStep == Get(d, K_USER_NFrPerStep)
      isZStack == EqInt(Get(d, K_USER_ScanType), ScM_scanType_zStack)
  IN
  \* 78
  IF StimBufRaises(d) THEN OutcomeAt(h, RAISED, "stimbuf")
  \* 81-83: None > 1 raises TypeError
  ELSE IF isZStack /\ ~IsInt(nFrPerStep)
  THEN OutcomeAt([h EXCEPT !.StimBuf = Attr(isExtScanFunction(d))], RAISED, "scantype")
  ELSE IF ~h.fPath.smpPostOK
  THEN OutcomeAt([h EXCEPT !.StimBuf = Attr(isExtScanFunction(d))], RAISED, "postheader")
  ELSE IF GUIDMismatchEnds(h.fPath.smpGuid, h.SMHPreHdrDict.GUID)
  THEN OutcomeAt([h EXCEPT !.StimBuf = Attr(isExtScanFunction(d)),
                           !.SMPPreHdrDict = PreHdr(h.fPath.smpGuid)],
                 RAISED, "guid")
  ELSE loadSMP_pixels([h EXCEPT !.StimBuf = Attr(isExtScanFunction(d)),
                                !.SMPPreHdrDict = PreHdr(h.fPath.smpGuid)],
                      IF isZStack /\ nFrPerStep.i > 1 THEN nFrPerStep.i ELSE 1,
                      isZStack /\ nFrPerStep.i > 1)

\* scanm_smp.py 48-61: the checks of the state, the file and the scan mode
loadSMP_checked(h) ==
  IF ~h.isSMHReady THEN OutcomeAt(h, ERR_InvalidSMHObject, "state")
  ELSE IF ~h.fPath.smpExists THEN OutcomeAt(h, ERR_FileNotFound, "file")
  ELSE IF ~EqInt(Get(h.kvPairDict, K_USER_ScanMode), ScM_scanMode_XYImage)
  THEN IF CanNameScanMode(Get(h.kvPairDict, K_USER_ScanMode))
       THEN OutcomeAt(h, ERR_NotImplemented, "mode")
       ELSE OutcomeAt(h, RAISED, "mode")
  ELSE loadSMP_prepare(h)

\* SMP.loadSMP() (scanm_smp.py 41-389)
loadSMP(h) == loadSMP_checked(IF ClearsFirst(h) THEN SMP_reset(h) ELSE h)

(***************************************************************************)
(* getData                                                                 *)
(***************************************************************************)
\* what getData returns: None, an array (its shape, the indices of the
\* fast axis it keeps, its samples in row-major order), or nothing when
\* it raised
RetNone == [kind |-> "None", shape |-> <<>>, cols |-> <<>>, data |-> <<>>]

RetRaised == [kind |-> "raised", shape |-> <<>>, cols |-> <<>>, data |-> <<>>]

RetArray(shape, cols, data) ==
  [kind |-> "array", shape |-> shape, cols |-> cols, data |-> data]

\* a bound of a Python slice of a sequence of length n
SliceBound(x, n) ==
  IF x < 0 THEN (IF x + n < 0 THEN 0 ELSE x + n) ELSE (IF x > n THEN n ELSE x)

\* the indices (from 0) that the Python slice [start:stop] of a sequence of
\* length n keeps, in order
SliceIndices(n, start, stop) ==
  LET a == SliceBound(start, n)
      b == SliceBound(stop, n)
  IN [x \in 1..(IF b > a THEN b - a ELSE 0) |-> a + x - 1]

\* scanm_smp.py 402: the array of an entry as it is
WholeArray(c) ==
  RetArray(c.shape,
           IF Len(c.shape) = 3 THEN [x \in 1..c.shape[3] |-> x - 1] ELSE <<>>,
           c.data)

\* scanm_smp.py 407: array[:, :, nFastPixOff:-nFastPixRetr] of a 3-D array
CropArray(c, nFastPixOff, nFastPixRetr) ==
  LET cols == SliceIndices(c.shape[3], nFastPixOff, 0 - nFastPixRetr)
      nc == Len(cols)
      nLines == c.shape[1] * c.shape[2]
  IN RetArray(<<c.shape[1], c.shape[2], nc>>, cols,
              [x \in 1..(nLines * nc) |->
                 c.data[((x - 1) \div nc) * c.shape[3] + cols[((x - 1) % nc) + 1] + 1]])

\* SMP.getData(ch, crop) at the j-th entry of _wPixData and after
\* (scanm_smp.py 399-410); j counts from 0
RECURSIVE getDataFrom(_, _, _, _)
getDataFrom(h, ch, crop, j) ==
  IF j >= SCMIO_maxInputChans THEN RetNone
  \* _wPixData[j] raises IndexError
  ELSE IF j >= Len(h.wPixData.v) THEN RetRaised
  ELSE IF h.wPixData.v[j + 1].ch # ch THEN getDataFrom(h, ch, crop, j + 1)
  ELSE IF ~crop THEN WholeArray(h.wPixData.v[j + 1])
  ELSE LET scanMode == Get(h.kvPairDict, K_USER_ScanMode) IN
       IF ~(\E m \in {ScM_scanMode_XYImage, ScM_scanMode_XZYImage,
                      ScM_scanMode_ZXYImage} : EqInt(scanMode, m))
       THEN RetRaised
       \* a missing _nFastPixOff raises AttributeError, three indices into
       \* a flat array IndexError
       ELSE IF ~h.geom.has \/ Len(h.wPixData.v[j + 1].shape) # 3 THEN RetRaised
       ELSE CropArray(h.wPixData.v[j + 1], h.geom.v.nFastPixOff,
                      h.geom.v.nFastPixRetr)

\* SMP.getData(ch, crop) (scanm_smp.py 396-410); a missing _wPixData
\* raises AttributeError
getData(h, ch, crop) ==
  IF ~h.wPixData.has THEN RetRaised ELSE getDataFrom(h, ch, crop, 0)

(***************************************************************************)
(* scm_load_pre_header (scanm_global.py 264-291).  A buffer is a sequence  *)
(* of bytes, each a number in 0..255; text is the sequence of its code     *)
(* points.  The 64-bit values of the model are below 2^31.                 *)
(***************************************************************************)
SCMIO_preHeaderSize_bytes == 64

\* struct.unpack of "H" at the bytes i, i + 1 of b, low byte first
UnpackH(b, i) == b[i] + 256 * b[i + 1]

\* struct.unpack of "Q" at the bytes i .. i + 7 of b, low byte first
UnpackQ(b, i) ==
  b[i] + 256 * (b[i + 1] + 256 * (b[i + 2] + 256 * (b[i + 3] + 256 *
    (b[i + 4] + 256 * (b[i + 5] + 256 * (b[i + 6] + 256 * b[i + 7]))))))

HexDigits ==
  <<"0", "1", "2", "3", "4", "5", "6", "7", "8", "9", "a", "b", "c", "d",
    "e", "f">>

\* bytes.hex()
RECURSIVE Hex(_)
Hex(b) ==
  IF b = <<>> THEN ""
  ELSE HexDigits[(b[1] \div 16) + 1] \o HexDigits[(b[1] % 16) + 1] \o Hex(Tail(b))

IsCont(x) == x \in 128..191

\* bytearray(q).decode("utf-8") of three bytes: the code points, or
\* ok = FALSE for UnicodeDecodeError
Utf8Decode3(q) ==
  LET Bad == [ok |-> FALSE, chars |-> <<>>]
      Two(a, b) == (a - 192) * 64 + (b - 128)
  IN IF \A j \in 1..3 : q[j] < 128 THEN [ok |-> TRUE, chars |-> q]
     ELSE IF q[1] \in 194..223 /\ IsCont(q[2]) /\ q[3] < 128
     THEN [ok |-> TRUE, chars |-> <<Two(q[1], q[2]), q[3]>>]
     ELSE IF q[1] < 128 /\ q[2] \in 194..223 /\ IsCont(q[3])
     THEN [ok |-> TRUE, chars |-> <<q[1], Two(q[2], q[3])>>]
     ELSE IF /\ q[1] \in 224..239 /\ IsCont(q[2]) /\ IsCont(q[3])
             /\ (q[1] = 224 => q[2] >= 160) /\ (q[1] = 237 => q[2] < 160)
     THEN [ok |-> TRUE,
           chars |-> <<(q[1] - 224) * 4096 + (q[2] - 128) * 64 + (q[3] - 128)>>]
     ELSE Bad

\* no dictionary: scm_load_pre_header raised (struct.error of a buffer
\* shorter than 64 bytes, ValueError of bytearray on a number above 255,
\* UnicodeDecodeError)
PreHdrRaised ==
  [raised |-> TRUE, fileType |-> <<>>, GUID |-> "", headerLen_byte |-> 0,
   headerLen_values |-> 0, headerStart_bytes |-> 0, pixDataLen_byte |-> 0,
   analogDataLen_byte |-> 0]

\* scm_load_pre_header on a file whose bytes from the offset on are b:
\* hdr = struct.unpack("4H16s5Q", buf), fileType from hdr[0:3] only
scm_load_pre_header(b) ==
  IF Len(b) < SCMIO_preHeaderSize_bytes THEN PreHdrRaised
  ELSE LET hdr03 == <<UnpackH(b, 1), UnpackH(b, 3), UnpackH(b, 5)>>
           txt == Utf8Decode3(hdr03)
       IN IF \E j \in 1..3 : hdr03[j] > 255 THEN PreHdrRaised
          ELSE IF ~txt.ok THEN PreHdrRaised
          ELSE [raised |-> FALSE,
                fileType |-> txt.chars,
                GUID |-> Hex(SubSeq(b, 9, 24)),
                headerLen_byte |-> UnpackQ(b, 25),
                headerLen_values |-> UnpackQ(b, 33),
                headerStart_bytes |-> UnpackQ(b, 41),
                pixDataLen_byte |-> UnpackQ(b, 49),
                analogDataLen_byte |-> UnpackQ(b, 57)]

(***************************************************************************)
(* The decoding of a header line (scanm_smh.py 66-88).  The header file is *)
(* read as ISO-8859-1 text, so the characters of a line are the bytes of   *)
(* the file up to and including the newline.                               *)
(***************************************************************************)
\* str.encode("utf-8") of text whose code points are below 256
RECURSIVE Utf8Encode(_)
Utf8Encode(ln) ==
  IF ln = <<>> THEN <<>>
  ELSE (IF ln[1] < 128 THEN <<ln[1]>>
        ELSE <<192 + (ln[1] \div 64), 128 + (ln[1] % 64)>>)
       \o Utf8Encode(Tail(ln))

\* buf[k], k counting from 0
At(buf, k) == buf[k + 1]

\* range((len(buf) - 1) // 2)
LoopCount_short(buf) == (Len(buf) - 3) \div 2

LoopCount(buf) == (Len(buf) - 1) \div 2

\* tmp[:-1]
DropLast_none(tmp) == tmp

DropLast(tmp) == IF tmp = <<>> THEN <<>> ELSE SubSeq(tmp, 1, Len(tmp) - 1)

\* the decoding ended with IndexError
LineRaised == [raised |-> TRUE, s |-> <<>>, kept |-> FALSE]

\* The loop of scanm_smh.py 79-85 with `left` iterations to go: tmp at its
\* end, or ok = FALSE when an index is beyond the end of buf.
RECURSIVE DecodeLoop(_, _, _, _)
DecodeLoop(buf, ich, tmp, left) ==
  IF left <= 0 THEN [ok |-> TRUE, tmp |-> tmp]
  ELSE IF ich + 1 >= Len(buf) THEN [ok |-> FALSE, tmp |-> tmp]
  ELSE IF At(buf, ich + 1) = 0
  THEN IF ich + 2 >= Len(buf) THEN [ok |-> FALSE, tmp |-> tmp]
       ELSE DecodeLoop(buf, ich + 2, Append(tmp, At(buf, ich + 2)), left - 1)
  ELSE IF ich + 3 >= Len(buf) THEN [ok |-> FALSE, tmp |-> tmp]
       ELSE DecodeLoop(buf, ich + 3,
                       DropLast(tmp) \o <<At(buf, ich + 1), At(buf, ich + 3)>>,
                       left - 1)

\* tmp.split("\n")[0]
RECURSIVE FirstLine(_)
FirstLine(tmp) ==
  IF tmp = <<>> \/ tmp[1] = 10 THEN <<>>
  ELSE <<tmp[1]>> \o FirstLine(Tail(tmp))

\* scanm_smh.py 77-94 on the line ln that readline returned: the string s,
\* and whether it is kept as a parameter line
DecodeLine(ln) ==
  LET buf == Utf8Encode(ln)
      r == DecodeLoop(buf, 0 - 1, <<>>, LoopCount(buf))
      s == FirstLine(r.tmp)
  IN IF ~r.ok THEN LineRaised
     ELSE [raised |-> FALSE, s |-> s, kept |-> Len(s) > 0 /\ s[1] # 0]

(***************************************************************************)
(* The state: the attributes of one SMP object, and what its last call     *)
(* did                                                                     *)
(***************************************************************************)
VARIABLES
  isSMHReady,     \* _isSMHReady
  isSMPReady,     \* _isSMPReady
  kvPairDict,     \* _kvPairDict
  SMHPreHdrDict,  \* _SMHPreHdrDict
  SMPPreHdrDict,  \* _SMPPreHdrDict
  fPath,          \* _fPath
  StimBuf,        \* _StimBuf (its isExtScanFunction)
  nFr,            \* _nFr
  wPixData,       \* _wPixData
  geom,           \* _dFast, _nFastPixRetr, _nFastPixOff, _dSlow1, _dSlow2
  lastOp,         \* the last call: "new", "loadSMH", "loadSMP", "getData"
  lastRet,        \* the code the last load call returned, or RAISED
  lastStage,      \* the step at which the last load call ended
  lastArgs,       \* the arguments of the last getData
  lastData,       \* what the last getData returned
  callKv,         \* _kvPairDict at the start of the last loadSMP, if it is the last load
  lastLoad,       \* the last call other than getData
  rawBuf,         \* buf: the bytes handed to a decoding function
  decoded         \* what the decoding function made of them

vars ==
  <<isSMHReady, isSMPReady, kvPairDict, SMHPreHdrDict, SMPPreHdrDict, fPath,
    StimBuf, nFr, wPixData, geom, lastOp, lastRet, lastStage, lastArgs,
    lastData, callKv, lastLoad, rawBuf, decoded>>

\* the object as a record
Self ==
  [isSMHReady |-> isSMHReady, isSMPReady |-> isSMPReady,
   kvPairDict |-> kvPairDict, SMHPreHdrDict |-> SMHPreHdrDict,
   SMPPreHdrDict |-> SMPPreHdrDict, fPath |-> fPath, StimBuf |-> StimBuf,
   nFr |-> nFr, wPixData |-> wPixData, geom |-> geom]

\* the object after the step is h
Becomes(h) ==
  /\ isSMHReady' = h.isSMHReady
  /\ isSMPReady' = h.isSMPReady
  /\ kvPairDict' = h.kvPairDict
  /\ SMHPreHdrDict' = h.SMHPreHdrDict
  /\ SMPPreHdrDict' = h.SMPPreHdrDict
  /\ fPath' = h.fPath
  /\ StimBuf' = h.StimBuf
  /\ nFr' = h.nFr
  /\ wPixData' = h.wPixData
  /\ geom' = h.geom

NoArgs == [ch |-> 0, crop |-> FALSE]

\* no decoding function has been applied
NotDecoded == <<>>

\* a new SMP object
InitSMP ==
  /\ isSMHReady = NewSMP.isSMHReady
  /\ isSMPReady = NewSMP.isSMPReady
  /\ kvPairDict = NewSMP.kvPairDict
  /\ SMHPreHdrDict = NewSMP.SMHPreHdrDict
  /\ SMPPreHdrDict = NewSMP.SMPPreHdrDict
  /\ fPath = NewSMP.fPath
  /\ StimBuf = NewSMP.StimBuf
  /\ nFr = NewSMP.nFr
  /\ wPixData = NewSMP.wPixData
  /\ geom = NewSMP.geom
  /\ lastOp = "new"
  /\ lastRet = ERR_Ok
  /\ lastStage = ""
  /\ lastArgs = NoArgs
  /\ lastData = RetNone
  /\ callKv = EmptyDict
  /\ lastLoad = "new"

Init == InitSMP /\ rawBuf = <<>> /\ decoded = NotDecoded

\* scmf.loadSMH(fName)
LoadSMH(f) ==
  \E o \in {loadSMH(Self, f)} :
  /\ Becomes(o.h)
  /\ lastOp' = "loadSMH"
  /\ lastLoad' = "loadSMH"
  /\ lastRet' = o.ret
  /\ lastStage' = loadSMH_stage(f, o.ret)
  /\ callKv' = EmptyDict
  /\ lastArgs' = NoArgs
  /\ lastData' = RetNone
  /\ UNCHANGED <<rawBuf, decoded>>

\* The two buffer counts of the dictionary grow with every loadSMP that
\* ends after it has scaled them; the model follows them up to MaxCount.
CountsWithin(d) ==
  \A key \in {K_NumberOfPixBufsSet, K_PixBufCounter} :
     IsInt(Get(d, key)) => Get(d, key).i <= MaxCount

\* scmf.loadSMP()
LoadSMP ==
  /\ CountsWithin(kvPairDict)
  /\ \E o \in {loadSMP(Self)} :
     /\ Becomes(o.h)
     /\ lastOp' = "loadSMP"
     /\ lastLoad' = "loadSMP"
     /\ lastRet' = o.ret
     /\ lastStage' = o.stage
     /\ callKv' = kvPairDict
     /\ lastArgs' = NoArgs
     /\ lastData' = RetNone
     /\ UNCHANGED <<rawBuf, decoded>>

\* scmf.getData(ch, crop)
GetData(ch, crop) ==
  /\ lastOp' = "getData"
  /\ lastArgs' = [ch |-> ch, crop |-> crop]
  /\ lastData' = getData(Self, ch, crop)
  /\ UNCHANGED <<isSMHReady, isSMPReady, kvPairDict, SMHPreHdrDict,
                 SMPPreHdrDict, fPath, StimBuf, nFr, wPixData, geom,
                 lastLoad, lastRet, lastStage, callKv, rawBuf, decoded>>

\* the calls on the object, the files being those of the set F
NextOn(F) ==
  \/ \E f \in F : LoadSMH(f)
  \/ LoadSMP
  \/ \E ch \in 0..MaxAskCh, crop \in BOOLEAN : GetData(ch, crop)

Next == NextOn(StateFiles)

Spec == Init /\ [][Next]_vars

NextModes == NextOn(ModeFiles)

SpecModes == Init /\ [][NextModes]_vars

NextCrop == NextOn(CropFiles \cup LegacyFiles)

SpecCrop == Init /\ [][NextCrop]_vars

NextMask == NextOn(MaskFiles)

SpecMask == Init /\ [][NextMask]_vars

NextCount == NextOn(CountFiles)

SpecCount == Init /\ [][NextCount]_vars

NextGeom == NextOn(GeomFiles)

SpecGeom == Init /\ [][NextGeom]_vars

NextRead == NextOn(ReadFiles)

SpecRead == Init /\ [][NextRead]_vars

NextParse == NextOn(ParseFiles)

NextExt == NextOn(ExtFiles)

NextClamp == NextOn(ClampFiles)

NextStale == NextOn(StaleFiles)

SpecStale == Init /\ [][NextStale]_vars

SpecClamp == Init /\ [][NextClamp]_vars

SpecExt == Init /\ [][NextExt]_vars

SpecParse == Init /\ [][NextParse]_vars

(***************************************************************************)
(* The decoding functions, each applied to the inputs of a set             *)
(***************************************************************************)
\* a call of a decoding function leaves the object alone
DecodeOnly ==
  UNCHANGED <<isSMHReady, isSMPReady, kvPairDict, SMHPreHdrDict,
              SMPPreHdrDict, fPath, StimBuf, nFr, wPixData, geom, lastRet,
              lastStage, lastArgs, lastData, callKv, lastLoad, rawBuf>>

\* struct.pack of "Q", low byte first, of a value below 2^31
PackQ(v) == [j \in 1..8 |-> IF j <= 4 THEN (v \div (256 ^ (j - 1))) % 256 ELSE 0]

\* the 64 bytes of a pre-header with the fields F, in the layout of
\* SMP_preHeaderStruct
PreHdrBytes(F) ==
  F.fileTypeID \o F.GUID \o PackQ(F.headerSize_bytes)
  \o PackQ(F.headerLen_pairs) \o PackQ(F.headerStart_bytes)
  \o PackQ(F.pixelDataLen_bytes) \o PackQ(F.analogDataLen_bytes)

\* file type tags: "SMH" and "SMP" in 16-bit characters with a
\* terminating zero, a tag of four 16-bit characters, a tag of 8-bit
\* characters, and a tag whose three first 16-bit values are UTF-8
PreHdrTags ==
  {<<83, 0, 77, 0, 72, 0, 0, 0>>, <<83, 0, 77, 0, 80, 0, 0, 0>>,
   <<83, 0, 77, 0, 72, 0, 49, 0>>, <<83, 77, 72, 69, 65, 68, 69, 82>>,
   <<194, 0, 181, 0, 65, 0, 0, 0>>}

PreHdrGUIDs ==
  {[j \in 1..16 |-> j - 1], [j \in 1..16 |-> 255 - (15 * j)]}

PreHdrValues == {0, 66051}

PreHdrFields ==
  [fileTypeID : PreHdrTags, GUID : PreHdrGUIDs,
   headerSize_bytes : PreHdrValues, headerLen_pairs : PreHdrValues,
   headerStart_bytes : PreHdrValues, pixelDataLen_bytes : PreHdrValues,
   analogDataLen_bytes : PreHdrValues]

\* the files: the pre-headers, and one that ends before its 64th byte
PreHdrBufs ==
  {PreHdrBytes(F) : F \in PreHdrFields}
  \cup {SubSeq(PreHdrBytes(F), 1, SCMIO_preHeaderSize_bytes - 1) :
          F \in {G \in PreHdrFields : G.headerSize_bytes = 0}}

InitPreHdr == InitSMP /\ rawBuf \in PreHdrBufs /\ decoded = NotDecoded

\* scm_load_pre_header(fPath)
LoadPreHeader ==
  /\ lastOp' = "scm_load_pre_header"
  /\ decoded' = scm_load_pre_header(rawBuf)
  /\ DecodeOnly

NextPreHdr == LoadPreHeader

SpecPreHdr == InitPreHdr /\ [][NextPreHdr]_vars

\* the longest text of a header line
MaxLine == 4

\* "A", "=", the micro sign and e acute
LineChars == {65, 61, 181, 233}

RECURSIVE TextsOfLen(_)
TextsOfLen(n) ==
  IF n = 0 THEN {<<>>}
  ELSE {Append(t, c) : t \in TextsOfLen(n - 1), c \in LineChars}

LineTexts == UNION {TextsOfLen(n) : n \in 0..MaxLine}

\* the bytes of a line of the header file: a zero byte before each
\* character, and a zero byte and a newline at its end
RECURSIVE DualByte(_)
DualByte(t) ==
  IF t = <<>> THEN <<0, 10>> ELSE <<0, t[1]>> \o DualByte(Tail(t))

InitLine ==
  InitSMP /\ rawBuf \in {DualByte(t) : t \in LineTexts} /\ decoded = NotDecoded

\* one pass of the loop that reads the lines of the header file
ReadLine ==
  /\ lastOp' = "readline"
  /\ decoded' = DecodeLine(rawBuf)
  /\ DecodeOnly

NextLine == ReadLine

SpecLine == InitLine /\ [][NextLine]_vars

(***************************************************************************)
(* Properties                                                              *)
(***************************************************************************)
\* the attributes of the object
fields ==
  <<isSMHReady, isSMPReady, kvPairDict, SMHPreHdrDict, SMPPreHdrDict, fPath,
    StimBuf, nFr, wPixData, geom>>

\* C1: loadSMP on an object on which no header is loaded returns
\* ERR_InvalidSMHObject and changes no attribute of the object (dictionary,
\* the two pre-header records, path, the two ready flags, channel arrays).
C1_LoadSMPOnEmpty ==
  [][(lastOp' = "loadSMP" /\ ~isSMHReady)
       => (lastRet' = ERR_InvalidSMHObject /\ UNCHANGED fields)]_vars

\* loadSMP has returned ERR_InvalidSMHObject on an object that never held
\* a header or pixel data
C1_Witness ==
  /\ lastOp = "loadSMP" /\ lastRet = ERR_InvalidSMHObject
  /\ ~isSMHReady /\ ~isSMPReady /\ kvPairDict = EmptyDict /\ ~wPixData.has

\* C2: after any sequence of calls, _isSMPReady holds only if _isSMHReady
\* holds; _isSMPReady becomes true only in a loadSMP that returns ERR_Ok
\* on an object whose header is loaded, _isSMHReady only in a loadSMH that
\* returns ERR_Ok; and no load call leaves _isSMPReady true.
C2_ReadyFlags ==
  [][/\ isSMPReady => isSMHReady
     /\ isSMPReady' => isSMHReady'
     /\ (isSMPReady' /\ ~isSMPReady)
          => (lastOp' = "loadSMP" /\ lastRet' = ERR_Ok /\ isSMHReady)
     /\ (isSMHReady' /\ ~isSMHReady)
          => (lastOp' = "loadSMH" /\ lastRet' = ERR_Ok /\ ~isSMPReady')
     /\ (isSMPReady /\ isSMPReady') => lastOp' = "getData"]_vars

\* pixel data has been loaded
C2_Witness ==
  isSMPReady /\ isSMHReady /\ lastOp = "loadSMP" /\ lastRet = ERR_Ok

\* the recordings that C3 calls well-formed: a header with parameters,
\* scan mode XYImage, a built-in scan path function, 2 or 8 bytes per
\* pixel, 1 image per frame, and a pixel data file with its trailer that
\* holds more samples than any load reads
C3_WellFormed(f) ==
  /\ f.hdrExists /\ f.hdrPreOK /\ ~f.par.noLines
  /\ f.par.mode = "0"
  /\ f.par.spf[1] \in ScM_simpleScanFuncList
  /\ f.par.pix \in {"2", "8"}
  /\ f.par.nImgPerFr = "1"
  /\ f.smpExists /\ f.smpPostOK /\ f.smpSamples = Plenty

\* C3: for every well-formed recording, loadSMH returns ERR_Ok, the loadSMP
\* that follows it returns ERR_Ok, neither raises, and the object then has
\* its pixel data loaded.
C3_AsClaimed ==
  [][\A f \in StateFiles :
       C3_WellFormed(f) =>
         /\ LoadSMH(f) => (lastRet' = ERR_Ok /\ isSMHReady')
         /\ (lastOp = "loadSMH" /\ lastRet = ERR_Ok /\ fPath = f
               /\ lastOp' = "loadSMP")
              => (lastRet' = ERR_Ok /\ isSMPReady')]_vars

\* the scan mode that the dictionary holds is one of the named modes other
\* than XYImage
C4_OtherMode(d) ==
  /\ IsInt(Get(d, K_USER_ScanMode))
  /\ Get(d, K_USER_ScanMode).i \in 1..(Len(ScM_scanModeStr) - 1)

\* C4: with a scan mode other than XYImage in the header, loadSMP on an
\* object whose header is loaded (and whose pixel data file exists) returns
\* ERR_NotImplemented or ERR_UnknownScanMode, does not raise, does not set
\* _isSMPReady, and a getData after it returns no channel array.
C4_AsClaimed ==
  (lastLoad = "loadSMP" /\ lastStage # "state" /\ fPath.smpExists
     /\ C4_OtherMode(kvPairDict))
    => /\ lastRet \in {ERR_NotImplemented, ERR_UnknownScanMode}
       /\ ~isSMPReady
       /\ lastOp = "getData" => lastData.kind # "array"

\* C5: after a successful load, getData(ch, crop) for a channel ch whose
\* bit is not set in the input channel mask returns None and does not
\* raise, for every mask and both values of crop.
C5_AsClaimed ==
  (lastOp = "getData" /\ isSMPReady
     /\ ~Bit(Get(kvPairDict, K_InputChannelMask).i, lastArgs.ch))
    => lastData.kind = "None"

\* C6: for every loaded channel, offset >= 0 and retrace >= 0 with
\* offset + retrace <= fast axis length, getData(ch, crop=True) returns
\* the fast-axis indices offset .. length - retrace - 1 (so length - offset
\* - retrace columns), and getData(ch, crop=False) all columns.
C6_AsClaimed ==
  (lastOp = "getData" /\ isSMPReady
     /\ Bit(Get(kvPairDict, K_InputChannelMask).i, lastArgs.ch)
     /\ geom.v.nFastPixOff >= 0 /\ geom.v.nFastPixRetr >= 0
     /\ geom.v.nFastPixOff + geom.v.nFastPixRetr <= geom.v.dFast)
    => /\ lastData.kind = "array"
       /\ lastData.cols =
            IF lastArgs.crop
            THEN [x \in 1..(geom.v.dFast - geom.v.nFastPixOff - geom.v.nFastPixRetr)
                    |-> geom.v.nFastPixOff + x - 1]
            ELSE [x \in 1..geom.v.dFast |-> x - 1]

(***************************************************************************)
(* The quantities of the pixel stream reader as its description names      *)
(* them, from a dictionary d and the two buffer counts S (set) and C       *)
(* (consumed)                                                              *)
(***************************************************************************)
\* the factor of scanm_smp.py 160-162
Ref_Scale(d) ==
  IF Get(d, K_USER_stimBufPerFr).i > 0 THEN Get(d, K_USER_stimBufPerFr).i ELSE 1

Ref_BuffersSet(d) == Get(d, K_NumberOfPixBufsSet).i

Ref_BuffersConsumed(d) == Get(d, K_PixBufCounter).i

Ref_FastAxis(d) == Get(d, K_USER_dxPix).i

Ref_SlowAxis1(d) ==
  IF Get(d, K_USER_dyPix).i > 0 THEN Get(d, K_USER_dyPix).i ELSE 1

Ref_SlowAxis2(d) ==
  IF Get(d, K_USER_dzPix).i > 0 THEN Get(d, K_USER_dzPix).i ELSE 1

Ref_PixelsPerFrame(d) == Ref_FastAxis(d) * Ref_SlowAxis1(d) * Ref_SlowAxis2(d)

Ref_PixelBufferLength(d) == Get(d, K_InChan_PixBufLenList).l[1].i

Ref_FramesPerStep(d) ==
  IF Get(d, K_USER_ScanType) = IntV(ScM_scanType_zStack)
       /\ Get(d, K_USER_NFrPerStep).i > 1
  THEN Get(d, K_USER_NFrPerStep).i ELSE 1

Ref_ImagesPerFrame(d) ==
  IF Get(d, K_USER_nImgPerFr).i > 1 THEN Get(d, K_USER_nImgPerFr).i ELSE 1

Ref_ActiveChannels(d) ==
  {c \in 0..(SCMIO_maxInputChans - 1) : Bit(Get(d, K_InputChannelMask).i, c)}

\* the rank of channel c among the active channels, from 0
Ref_Rank(d, c) == Cardinality({x \in Ref_ActiveChannels(d) : x < c})

Ref_Counted(S, C) == IF S = C THEN S ELSE S - C

\* the divisions of the frame count are exact
Ref_Exact(d) == Ref_PixelsPerFrame(d) % Ref_PixelBufferLength(d) = 0

\* buffersToRead, rounded toward 0
Ref_BuffersToRead(d, S, C) ==
  LET x == Ref_Counted(S, C) * Ref_PixelsPerFrame(d) * Ref_FramesPerStep(d)
  IN IF x >= 0 THEN x \div Ref_PixelBufferLength(d)
     ELSE 0 - ((0 - x) \div Ref_PixelBufferLength(d))

\* frameCount, the divisions being exact
Ref_FrameCount(d, S, C) ==
  LET buffersPerFrame == Ref_PixelsPerFrame(d) \div Ref_PixelBufferLength(d)
      buffersToRead == Ref_Counted(S, C) * buffersPerFrame * Ref_FramesPerStep(d)
  IN (((buffersToRead \div Ref_FramesPerStep(d)) * Ref_PixelBufferLength(d))
        \div Ref_PixelsPerFrame(d)) * Ref_ImagesPerFrame(d)

\* buffersToRead of the last loadSMP
Ref_Read ==
  Ref_BuffersToRead(callKv, Ref_BuffersSet(callKv) * Ref_Scale(callKv),
                    Ref_BuffersConsumed(callKv) * Ref_Scale(callKv))

\* C7: after a successful loadSMP, for every active channel c of rank r
\* among the set bits of the input channel mask, every buffer b <
\* buffersToRead and every i < pixelBufferLength, sample b*L + i of the
\* flat array of c is sample b*(L*nChannels) + r*L + i of the pixel
\* stream (L = pixelBufferLength), the array holding buffersToRead*L
\* samples: the buffers follow one another in the order of their index.
C7_Demultiplexed ==
  isSMPReady =>
    LET L == Ref_PixelBufferLength(callKv)
        nCh == Cardinality(Ref_ActiveChannels(callKv))
    IN /\ Len(wPixData.v) = nCh
       /\ \A c \in Ref_ActiveChannels(callKv) :
            \E j \in 1..Len(wPixData.v) :
              /\ wPixData.v[j].ch = c
              /\ Len(wPixData.v[j].data) = Ref_Read * L
              /\ \A b \in 0..(Ref_Read - 1), i \in 0..(L - 1) :
                   wPixData.v[j].data[b * L + i + 1]
                     = Sample(b * (L * nCh) + Ref_Rank(callKv, c) * L + i + 1)

\* two or more channels of two or more buffers are loaded
C7_Witness ==
  /\ isSMPReady /\ lastOp = "loadSMP"
  /\ Cardinality(Ref_ActiveChannels(callKv)) >= 2
  /\ Ref_Read >= 2 /\ Ref_PixelBufferLength(callKv) >= 2

\* the last load call is a loadSMP that has stored the frame count
C8_Stored ==
  /\ lastLoad = "loadSMP"
  /\ lastStage \in {"nImgPerFr", "alloc", "zstack", "external", "read",
                    "reshape", "save", "done"}

\* C8 as amended: the frame count that loadSMP stores is
\* (buffersToRead / framesPerStep * pixelBufferLength) / pixelsPerFrame
\* * imagesPerFrame, with pixelsPerFrame, buffersPerFrame and buffersToRead
\* as in C8, buffersSet and buffersConsumed being the values the
\* dictionary holds when loadSMP is called, each multiplied by the
\* stimulus buffers per frame (for all inputs where the divisions are
\* exact).
C8_FrameCount ==
  (C8_Stored /\ Ref_Exact(callKv))
    => /\ nFr.has
       /\ nFr.v = Ref_FrameCount(callKv,
                                 Ref_BuffersSet(callKv) * Ref_Scale(callKv),
                                 Ref_BuffersConsumed(callKv) * Ref_Scale(callKv))

\* a frame count is stored for a header with 2 stimulus buffers per frame
C8_Witness ==
  /\ C8_Stored /\ Ref_Exact(callKv) /\ lastOp = "loadSMP"
  /\ Ref_Scale(callKv) = 2 /\ nFr.v > 0

\* C8: the frame count that loadSMP stores is (buffersToRead /
\* framesPerStep * pixelBufferLength) / pixelsPerFrame * imagesPerFrame,
\* buffersSet and buffersConsumed being the values the dictionary holds
\* after loadSMH (for all inputs where the divisions are exact).
C8_AsClaimed ==
  [][(lastOp = "loadSMH" /\ lastRet = ERR_Ok /\ C8_Stored' /\ Ref_Exact(kvPairDict))
       => nFr'.v = Ref_FrameCount(kvPairDict, Ref_BuffersSet(kvPairDict),
                                  Ref_BuffersConsumed(kvPairDict))]_vars

\* the last load call is a loadSMP that has read all its buffers
C9_ReadAll ==
  lastLoad = "loadSMP" /\ lastStage \in {"reshape", "save", "done"}

\* the length of a channel's flat array is not that of the target shape
C9_Mismatch ==
  \E j \in 1..Len(wPixData.v) :
    Len(wPixData.v[j].data)
      # nFr.v * (Ref_SlowAxis1(callKv) \div Ref_ImagesPerFrame(callKv))
              * Ref_FastAxis(callKv)

\* C9: when loadSMP has read all buffers and the length of a channel's
\* flat array differs from frameCount * (slowAxis1 / imagesPerFrame) *
\* fastAxisLength, loadSMP returns ERR_CannotReshapePixelData, does not
\* set _isSMPReady, and every channel array is left flat with the
\* buffersToRead * pixelBufferLength samples that were read.
C9_ReshapeFailure ==
  (C9_ReadAll /\ C9_Mismatch)
    => /\ lastRet = ERR_CannotReshapePixelData
       /\ ~isSMPReady
       /\ \A j \in 1..Len(wPixData.v) :
            /\ wPixData.v[j].shape = <<Len(wPixData.v[j].data)>>
            /\ Len(wPixData.v[j].data)
                 = Ref_Read * Ref_PixelBufferLength(callKv)

\* loadSMP has failed to reshape a channel array that is not empty
C9_Witness ==
  /\ C9_ReadAll /\ C9_Mismatch /\ lastOp = "loadSMP"
  /\ lastRet = ERR_CannotReshapePixelData
  /\ Len(wPixData.v[1].data) > 0

\* the pixel data file of the last loadSMP, which has come to reading it,
\* ends before buffersToRead buffers of pixelBufferLength * nChannels
\* samples
C10_Short ==
  /\ lastLoad = "loadSMP"
  /\ lastStage \in {"external", "read", "reshape", "save", "done"}
  /\ fPath.smpSamples
       < Ref_Read * Ref_PixelBufferLength(callKv)
                  * Cardinality(Ref_ActiveChannels(callKv))

\* C10: if the pixel data file ends before all buffersToRead buffers are
\* read, loadSMP fails and _isSMPReady is not set: it raises, unless the
\* scan path function is an external one, for which it returns
\* ERR_NotImplemented at the first buffer.
C10_PrematureEof ==
  C10_Short
    => /\ ~isSMPReady
       /\ lastRet # ERR_Ok
       /\ ~StimBuf.v => (lastRet = RAISED /\ lastStage = "read")
       /\ StimBuf.v => lastRet \in {RAISED, ERR_NotImplemented}

\* loadSMP has raised after it has read one buffer or more of a file that
\* is too short
C10_Witness ==
  /\ C10_Short /\ lastOp = "loadSMP" /\ lastRet = RAISED /\ ~StimBuf.v
  /\ fPath.smpSamples
       >= Ref_PixelBufferLength(callKv) * Cardinality(Ref_ActiveChannels(callKv))

\* the header file exists, has a pre-header and holds no parameter line
C11_NoLines(f) == f.hdrExists /\ f.hdrPreOK /\ f.par.noLines

\* C11: loadSMH of a header file that exists and yields no parameter line
\* returns the code for "no parameters found" (it does not raise), and
\* _isSMHReady is False after it.
C11_AsClaimed ==
  [][\A f \in StateFiles :
       (C11_NoLines(f) /\ LoadSMH(f))
         => /\ lastRet' \in {ERR_SMH_NoParametersFound, Err_SMH_NoParametersFound}
            /\ ~isSMHReady']_vars

\* C12: loadSMH of a path whose header file is absent returns
\* ERR_FileNotFound, and after it both ready flags are False and the
\* parameter dictionary is empty, whatever the object held before.
C12_AsClaimed ==
  [][\A f \in StateFiles :
       (~f.hdrExists /\ LoadSMH(f))
         => /\ lastRet' = ERR_FileNotFound
            /\ ~isSMHReady' /\ ~isSMPReady'
            /\ kvPairDict' = EmptyDict]_vars

\* the last call is a loadSMH that came to parse the lines of its header
C13_Parsing == lastOp = "loadSMH" /\ lastStage \in {"parse", "post", "done"}

\* a line of numeric type whose value token is no number (and not "nan")
C13_Unparsable(ln) ==
  /\ ln.sty \in {SCMIO_uint32Str, SCMIO_uint64Str, SCMIO_real32Str}
  /\ ~CanFloat(ln.toks)

\* the elements of a sequence
C13_Range(q) == {q[x] : x \in 1..Len(q)}

\* C13: for every line of numeric type (UINT32, UINT64, REAL32) whose
\* value token is no number, loadSMH does not abort in the parsing loop:
\* the key is stored with the value None and listed in key_w_err, and
\* every line after it is parsed.
C13_AsClaimed ==
  C13_Parsing =>
    LET kvl == HeaderLines(fPath.par)
        p == HeadersParsed[fPath.par]
    IN \A x \in 1..Len(kvl) :
         C13_Unparsable(kvl[x]) =>
           /\ lastStage # "parse"
           /\ HasKey(p.d, kvl[x].key) /\ IsNone(p.d[kvl[x].key].v)
           /\ kvl[x].key \in C13_Range(p.errs)
           /\ \A y \in (x + 1)..Len(kvl) : HasKey(p.d, kvl[y].key)


\* the length or shape a value has: the element count of a list, the
\* 2-tuple shape of the stimulus buffer map matrix, 1 of a scalar
C14_Actual(v) ==
  IF v.k = "list" THEN IntV(Len(v.l))
  ELSE IF v.k = "mat" THEN StimBufMapShape
  ELSE IntV(1)

\* C14: after a successful loadSMH the declared count of every entry of the
\* parameter dictionary is the length or shape of its value.
C14_AsClaimed ==
  (lastOp = "loadSMH" /\ lastRet = ERR_Ok) =>
    \A key \in DOMAIN kvPairDict :
      kvPairDict[key].n = C14_Actual(kvPairDict[key].v)


\* the dictionary that C15 expects of the pre-header with the fields F
C15_Expected(F) ==
  [raised |-> FALSE, fileType |-> F.fileTypeID, GUID |-> Hex(F.GUID),
   headerLen_byte |-> F.headerSize_bytes,
   headerLen_values |-> F.headerLen_pairs,
   headerStart_bytes |-> F.headerStart_bytes,
   pixDataLen_byte |-> F.pixelDataLen_bytes,
   analogDataLen_byte |-> F.analogDataLen_bytes]

\* C15: scm_load_pre_header of the 64 bytes of a pre-header written with
\* the fields F returns every field as written: the 8 characters of the
\* file type tag, the 16 bytes of the GUID in hexadecimal, and the five
\* 64-bit values.
C15_AsClaimed ==
  lastOp = "scm_load_pre_header" =>
    \A F \in PreHdrFields :
      rawBuf = PreHdrBytes(F) => decoded = C15_Expected(F)


\* the object with the pixel data file of its recording carrying the GUID
\* of the header file
C16_Matching(h) == [h EXCEPT !.fPath.smpGuid = h.SMHPreHdrDict.GUID]

\* C16: a loadSMP on a recording whose pixel data file carries another
\* GUID than its header file returns the code, and leaves the pixel data,
\* the frame count and the frame geometry, that it does when the two GUIDs
\* are the same.
C16_GUIDMismatch ==
  [][(/\ LoadSMP
      /\ isSMHReady /\ fPath.smpExists /\ fPath.smpPostOK
      /\ fPath.smpGuid # SMHPreHdrDict.GUID)
       => /\ lastRet' = loadSMP(C16_Matching(Self)).ret
          /\ wPixData' = loadSMP(C16_Matching(Self)).h.wPixData
          /\ nFr' = loadSMP(C16_Matching(Self)).h.nFr
          /\ geom' = loadSMP(C16_Matching(Self)).h.geom
          /\ isSMPReady' = loadSMP(C16_Matching(Self)).h.isSMPReady]_vars

\* pixel data has been loaded from a file whose GUID is not the one of the
\* header file
C16_Witness ==
  /\ lastOp = "loadSMP" /\ lastRet = ERR_Ok /\ isSMPReady /\ wPixData.has
  /\ SMPPreHdrDict.has /\ SMHPreHdrDict.has
  /\ SMPPreHdrDict.GUID # SMHPreHdrDict.GUID


\* the text t as a header line decodes to t
C17_Decodes(t) ==
  rawBuf = DualByte(t) => (~decoded.raised /\ decoded.s = t)

\* C17: a header line of characters below 128, each after a zero byte, that
\* ends with a zero byte and a newline is decoded to exactly its
\* characters.
C17_AsciiLine ==
  lastOp = "readline" =>
    \A t \in LineTexts : (\A j \in 1..Len(t) : t[j] < 128) => C17_Decodes(t)

\* a line of MaxLine characters below 128, more than one distinct, has
\* been decoded
C17_Witness ==
  /\ lastOp = "readline" /\ ~decoded.raised
  /\ Len(decoded.s) = MaxLine /\ decoded.s[1] # decoded.s[MaxLine]
  /\ \A j \in 1..MaxLine : decoded.s[j] < 128
  /\ rawBuf = DualByte(decoded.s)

\* the texts with one micro sign among characters below 128
C18_OneMicro(t) ==
  /\ \E j \in 1..Len(t) : t[j] = 181
  /\ \A j, k \in 1..Len(t) : (t[j] >= 128 /\ t[k] >= 128) => (j = k /\ t[j] = 181)

\* C18: a header line with one micro sign (0xB5), at any position, among
\* characters below 128 is decoded to its text, the micro sign as one
\* character and no character added.
C18_MicroLine ==
  lastOp = "readline" =>
    \A t \in LineTexts : C18_OneMicro(t) =>
      (rawBuf = DualByte(t) => (~decoded.raised /\ decoded.s = t /\ decoded.kept))

\* a line with the micro sign between two characters below 128 has been
\* decoded
C18_Witness ==
  /\ lastOp = "readline" /\ ~decoded.raised /\ Len(decoded.s) >= 3
  /\ decoded.s[2] = 181 /\ decoded.s[1] < 128 /\ decoded.s[3] < 128
  /\ rawBuf = DualByte(decoded.s) /\ C18_OneMicro(decoded.s)


\* C19: a loadSMP, whatever it returns, leaves every entry of the
\* parameter dictionary as it was at the end of loadSMH.
C19_AsClaimed ==
  [][LoadSMP => kvPairDict' = kvPairDict]_vars


\* the header that is loaded names a scan path function that is not built
\* in
C20_External ==
  /\ isSMHReady
  /\ Get(kvPairDict, K_USER_scanPathFunc).k = "list"
  /\ Get(kvPairDict, K_USER_scanPathFunc).l[1].s \notin ScM_simpleScanFuncList

\* C20: on a header whose scan path function is not built in, loadSMP never
\* returns ERR_Ok and the object never has its pixel data loaded, whatever
\* the count of pixel buffers and the input channel mask.
C20_AsClaimed ==
  C20_External => (~isSMPReady /\ ~(lastOp = "loadSMP" /\ lastRet = ERR_Ok))


\* a z-stack recording: scan type zStack, scan mode XYImage, a built-in
\* scan path function, header and pixel data file complete
C21_ZStack(f) ==
  /\ f.hdrExists /\ f.hdrPreOK /\ ~f.par.noLines
  /\ f.par.type = "11" /\ f.par.mode = "0"
  /\ f.par.spf[1] \in ScM_simpleScanFuncList
  /\ f.smpExists /\ f.smpPostOK /\ f.smpSamples = Plenty

\* C21: for a z-stack recording, with any number of frames per step,
\* loadSMH returns ERR_Ok and the loadSMP that follows it returns ERR_Ok.
C21_AsClaimed ==
  [][/\ \A f \in CountFiles :
          (C21_ZStack(f) /\ LoadSMH(f)) => lastRet' = ERR_Ok
     /\ (/\ LoadSMP /\ lastLoad = "loadSMH" /\ lastRet = ERR_Ok
         /\ C21_ZStack(fPath)) => lastRet' = ERR_Ok]_vars


\* the entries that loadSMH clamps
C22_Keys == {K_USER_nImgPerFr, K_USER_stimBufPerFr, K_USER_aspectRatioFrame}

\* C22: whenever the header is loaded, the entries of the images per frame,
\* the stimulus buffers per frame and the aspect ratio exist and each has a
\* value of 1 or more, whatever the header file gave them and whatever the
\* scan mode.
C22_ClampedAtLeast1 ==
  isSMHReady =>
    \A key \in C22_Keys :
      /\ HasKey(kvPairDict, key)
      /\ IsInt(Get(kvPairDict, key)) /\ Get(kvPairDict, key).i >= 1

\* a header that gives 0 to the three entries is loaded, in a scan mode
\* other than XYImage
C22_Witness ==
  /\ lastOp = "loadSMH" /\ lastRet = ERR_Ok /\ isSMHReady
  /\ fPath.par.mode = "3"
  /\ fPath.par.nImgPerFr = "0" /\ fPath.par.stimBufPerFr = "0"
  /\ fPath.par.aspect = "0"
  /\ \A key \in C22_Keys : Get(kvPairDict, key) = IntV(1)


\* the dictionary of loadSMH on the header with the parameters par, on an
\* object with an empty dictionary, when it reaches the backfill step
C23_AtBackfill(par) ==
  Then(Then(Then(RepairKeys(HeadersParsed[par].d, HeadersParsed[par].errs, 1),
                 StimLists), StimBufMap), InputChans)

\* the keys that the backfill step can assign
C23_BackfillKeys == DOMAIN Backfill(EmptyDict)

\* loadSMH has gone through the backfill step, from an empty dictionary
C23_Backfilled ==
  /\ lastOp = "loadSMH" /\ lastStage \in {"post", "done"}
  /\ HeadersParsed[fPath.par].ok /\ C23_AtBackfill(fPath.par).ok

C24_RepairKeys == {K_USER_nPixRetrace, K_USER_nXPixLineOffs}

\* the keys that were recorded with an error when the header of the last
\* loadSMH was parsed
C24_ErrorKeys ==
  {HeadersParsed[fPath.par].errs[j] : j \in 1..Len(HeadersParsed[fPath.par].errs)}

C25_ReloadResets ==
  [][/\ (LoadSMP /\ isSMPReady)
          => /\ lastRet' = ERR_InvalidSMHObject
             /\ ~isSMHReady' /\ ~isSMPReady'
             /\ kvPairDict' = EmptyDict
             /\ SMHPreHdrDict' = EmptyPreHdr /\ SMPPreHdrDict' = EmptyPreHdr
     /\ (LoadSMP /\ ~isSMHReady) => (~isSMPReady' /\ ~isSMHReady')]_vars

\* loadSMP has returned ERR_InvalidSMHObject on an object that held a
\* dictionary and the geometry of loaded pixel data, and left it reset
C25_Witness ==
  /\ lastOp = "loadSMP" /\ lastRet = ERR_InvalidSMHObject
  /\ callKv # EmptyDict /\ geom.has
  /\ ~isSMHReady /\ ~isSMPReady /\ kvPairDict = EmptyDict


\* C26: when loadSMH has returned ERR_Ok, the parameter dictionary is the
\* one that reading the header file of that call gives on a new object,
\* whatever calls were made on the object before.
C26_AsClaimed ==
  (lastOp = "loadSMH" /\ lastRet = ERR_Ok) =>
    kvPairDict = HeadersRead[fPath.par].d


\* C27: whenever the pixel data is not loaded, a getData returns no array
\* and the frame count nFr reads -1 (the object has no _nFr).
C27_AsClaimed ==
  ~isSMPReady =>
    /\ ~nFr.has
    /\ lastOp = "getData" => lastData.kind # "array"


\* C28: the decoding of a header line, whatever the number of its
\* characters above 127, ends without an index at or beyond the end of
\* the byte buffer of the line.
C28_AsClaimed ==
  lastOp = "readline" => ~decoded.raised


\* the retrace length and the line offset that the repair pass gives,
\* both keys recorded with an error, on the dictionary d
C29_Repaired(d) ==
  RepairKeys(d, <<K_USER_nPixRetrace, K_USER_nXPixLineOffs>>, 1)

\* the two that the correction for older files gives on d, the scan mode
\* XYImage and the frame width below 4 times retrace and offset
C29_Legacy(d) ==
  LegacyCorrection(
    DictUpdate(DictUpdate(DictUpdate(DictUpdate(d,
      K_USER_ScanMode, Entry("uint32", IntV(1), IntV(ScM_scanMode_XYImage))),
      K_USER_dxPix, Entry("uint32", IntV(1), IntV(1))),
      K_USER_nPixRetrace, Entry("uint32", IntV(1), IntV(1))),
      K_USER_nXPixLineOffs, Entry("uint32", IntV(1), IntV(1))))

\* C29: for the scan path function descriptor of a header, the repair
\* pass and the correction for older files give the same retrace length
\* and the same line offset.
C29_AsClaimed ==
  (/\ lastOp = "loadSMH" /\ lastStage \in {"post", "done"}
   /\ K_USER_nPixRetrace \in C24_ErrorKeys
   /\ C29_Repaired(HeadersParsed[fPath.par].d).ok
   /\ C29_Legacy(HeadersParsed[fPath.par].d).ok)
  => \A key \in {K_USER_nPixRetrace, K_USER_nXPixLineOffs} :
       ToInt(Get(C29_Repaired(HeadersParsed[fPath.par].d).d, key))
         = ToInt(Get(C29_Legacy(HeadersParsed[fPath.par].d).d, key))


\* C30: loadSMH of an XYImage header whose retrace length and line offset
\* are both 0 returns ERR_Ok and leaves the header ready.
C30_AsClaimed ==
  (/\ lastOp = "loadSMH" /\ lastStage \in {"post", "done"}
   /\ fPath.par.mode = "0" /\ fPath.par.retr = "0" /\ fPath.par.offs = "0")
  => lastRet = ERR_Ok /\ isSMHReady

=============================================================================
